---------------------------- MODULE Spec2Model ----------------------------
(***************************************************************************)
(* A model of secure-frame-ts: the SFrame header codec, the IV builder,    *)
(* the frame crypto (SFrameCrypto), the Sender, the Receiver and the       *)
(* Context facade.                                                         *)
(*                                                                         *)
(* JavaScript numbers are IEEE doubles: integers are exact up to 2^53.     *)
(* TLC's integers are 32 bits wide, so a number is kept as two limbs       *)
(* <<hi, lo>> denoting hi * 2^24 + lo with 0 <= lo < 2^24; -1 is           *)
(* <<-1, 2^24 - 1>>.  The WebCrypto primitives (HKDF, AES-GCM, HMAC) are   *)
(* outside the repository and are modelled symbolically: a ciphertext or   *)
(* tag byte is a term naming the key and the data it was computed from.    *)
(***************************************************************************)
EXTENDS Integers, Sequences, FiniteSets, TLC

(***************************************************************************)
(* Numbers                                                                 *)
(***************************************************************************)
LimbBase == 256 * 256 * 256

N(i) == <<i \div LimbBase, i % LimbBase>>

MinusOne == N(-1)

\* 2^53, the first integer whose successor is not a double
TwoPow53 == <<512 * 1024 * 1024, 0>>

NumLT(a, b) == \/ a[1] < b[1]
               \/ a[1] = b[1] /\ a[2] < b[2]

NumMax(a, b) == IF NumLT(a, b) THEN b ELSE a

\* a - b > w for a small w >= 0, without leaving the 32 bit range
NumDiffGT(a, b, w) ==
    LET dh == a[1] - b[1] IN
    IF dh >= 2 THEN TRUE
    ELSE IF dh = 1 THEN LimbBase + a[2] - b[2] > w
    ELSE IF dh = 0 THEN a[2] - b[2] > w
    ELSE FALSE

\* x + 1 in double arithmetic: exact below 2^53; 2^53 + 1 rounds (ties to even)
\* back to 2^53
NumInc(x) ==
    IF x = TwoPow53 THEN x
    ELSE IF x[2] + 1 = LimbBase THEN <<x[1] + 1, 0>>
    ELSE <<x[1], x[2] + 1>>

NumDec(x) == IF x[2] = 0 THEN <<x[1] - 1, LimbBase - 1>> ELSE <<x[1], x[2] - 1>>

RECURSIVE Pow256(_)
Pow256(k) == IF k = 0 THEN 1 ELSE 256 * Pow256(k - 1)

\* byte j (0 = least significant) of a non-negative number below 2^56
NumByte(x, j) ==
    IF j < 3 THEN (x[2] \div Pow256(j)) % 256
    ELSE IF j < 7 THEN (x[1] \div Pow256(j - 3)) % 256
    ELSE 0

(***************************************************************************)
(* SFrameHeader.ts                                                         *)
(***************************************************************************)
SFRAME_HEADER_MAXKEYID == <<512 * 1024 * 1024 - 1, LimbBase - 1>>

lengthAdjustment == 1

\* (mutant) only the upper limit is checked
checkSFrameHeaderKeyId_upperOnly(keyId) == ~NumLT(SFRAME_HEADER_MAXKEYID, keyId)

\* checkSFrameHeaderKeyId: TRUE when it returns, FALSE when it throws
\* InvalidHeaderKey
checkSFrameHeaderKeyId(keyId) ==
    /\ ~NumLT(keyId, N(0))
    /\ ~NumLT(SFRAME_HEADER_MAXKEYID, keyId)

\* parseInt((Math.log(i) / Math.log(256)).toString()) for i > 0, else 0, for
\* 0 <= i <= 2^53.  The quotient is computed in doubles: it is below the next
\* integer for every i below a power of 256 except 2^48 - 1, where
\* Math.log(2^48 - 1) and Math.log(2^48) are the same double and the quotient
\* is 6.
calculateKLENorLEN(i) ==
    IF i[1] = 0
    THEN IF i[2] < 256 THEN 0 ELSE IF i[2] < 65536 THEN 1 ELSE 2
    ELSE IF i[1] < 256 THEN 3
    ELSE IF i[1] < 65536 THEN 4
    ELSE IF i[1] < LimbBase /\ i # <<LimbBase - 1, LimbBase - 1>> THEN 5
    ELSE 6

\* (mutant) the bytes are not reversed
toUint8ArrayViaI64_noReverse(input, length) ==
    [j \in 1..length |-> NumByte(input, j - 1)]

\* BigUint64Array([input]) little endian, slice(0, length), reverse()
toUint8ArrayViaI64(input, length) ==
    [j \in 1..length |-> NumByte(input, length - j)]

generateSFrameHeader(keyId, counter) ==
    LET isExtendedKey == NumLT(N(7), keyId)
        keyLenOrKeyId == IF isExtendedKey THEN calculateKLENorLEN(keyId) ELSE keyId[2]
        ctrLEN == calculateKLENorLEN(counter)
        extendedKeyLength == keyLenOrKeyId + lengthAdjustment
        frameCounterLength == ctrLEN + lengthAdjustment
        metadata == (((ctrLEN % 8) * 2 + (IF isExtendedKey THEN 1 ELSE 0)) * 8)
                    + (keyLenOrKeyId % 8)
        keyBytes == IF isExtendedKey
                    THEN toUint8ArrayViaI64(keyId, extendedKeyLength)
                    ELSE << >>
        ctrBytes == toUint8ArrayViaI64(counter, frameCounterLength)
    IN  IF ~checkSFrameHeaderKeyId(keyId)
        THEN [error |-> "InvalidHeaderKey", data |-> << >>, keyId |-> keyId,
              counter |-> counter, rawCounter |-> << >>]
        ELSE [error |-> "", data |-> <<metadata>> \o keyBytes \o ctrBytes,
              keyId |-> keyId, counter |-> counter, rawCounter |-> ctrBytes]

\* value = value * 256 + view[i], over 'len' bytes starting after 'from'
RECURSIVE ReadNum(_, _, _, _)
ReadNum(view, from, len, acc) ==
    IF len = 0 THEN acc
    ELSE LET b == view[from + 1]
             lo == (acc[2] % 65536) * 256 + b
         IN  ReadNum(view, from + 1, len - 1,
                     <<acc[1] * 256 + acc[2] \div 65536, lo>>)

\* view is a sequence of byte values holding at least the header
parseSFrameHeader(view) ==
    LET metadata == view[1]
        ctrLEN == (metadata \div 16) % 8
        isExtendedKey == (metadata \div 8) % 2 = 1
        keyLenOrKeyId == metadata % 8
        frameCounterLength == ctrLEN + lengthAdjustment
        extendedKeyLength == keyLenOrKeyId + lengthAdjustment
        keyId == IF isExtendedKey THEN ReadNum(view, 1, extendedKeyLength, N(0))
                 ELSE N(keyLenOrKeyId)
        headerLength == IF isExtendedKey THEN extendedKeyLength + frameCounterLength
                        ELSE frameCounterLength
        ctrStartIdx == IF isExtendedKey THEN 1 + extendedKeyLength ELSE 1
    IN  [data |-> SubSeq(view, 1, headerLength + 1),
         keyId |-> keyId,
         counter |-> ReadNum(view, ctrStartIdx, frameCounterLength, N(0)),
         rawCounter |-> SubSeq(view, ctrStartIdx + 1, ctrStartIdx + frameCounterLength)]

(***************************************************************************)
(* Bytes of a frame.  A plain byte carries its value in n; the output of a *)
(* WebCrypto primitive is a term: "ct" is byte i of the AES-GCM ciphertext *)
(* of plaintext byte n under key material k and nonce iv, "gcm" is byte i  *)
(* of the AES-GCM tag over (k, iv, ad, pt), "mac" is byte i of the HMAC of *)
(* d under k.  All bytes share one record shape.                           *)
(***************************************************************************)
B(v) == [t |-> "b", k |-> 0, n |-> v, i |-> 0,
         iv |-> << >>, ad |-> << >>, pt |-> << >>, d |-> << >>]

Bytes(s) == [j \in 1..Len(s) |-> B(s[j])]

\* the numeric value a typed-array read returns
Val(b) == b.n

Vals(s) == [j \in 1..Len(s) |-> Val(s[j])]

\* subarray(from, to) with both ends clamped, 0-based, 'to' exclusive
Subarray(s, from, to) ==
    LET f == IF from < 0 THEN 0 ELSE IF from > Len(s) THEN Len(s) ELSE from
        e == IF to < 0 THEN 0 ELSE IF to > Len(s) THEN Len(s) ELSE to
    IN  SubSeq(s, f + 1, e)

\* target.set(source, offset) on a typed array
SetAt(target, source, offset) ==
    [j \in 1..Len(target) |->
        IF j > offset /\ j <= offset + Len(source) THEN source[j - offset]
        ELSE target[j]]

Zeros(len) == [j \in 1..len |-> B(0)]

(***************************************************************************)
(* CipherSuite.ts                                                          *)
(***************************************************************************)
AES_CM_128_HMAC_SHA256_8 == 1
AES_CM_128_HMAC_SHA256_4 == 2
AES_GCM_128_SHA256 == 3
AES_GCM_256_SHA512 == 4

getCipherSuiteConfig(variant) ==
    CASE variant = AES_CM_128_HMAC_SHA256_8 ->
            [algorithm |-> "AES-CTR", hashAlgorithm |-> "SHA-256", nK |-> 16, nN |-> 12, nT |-> 8]
      [] variant = AES_CM_128_HMAC_SHA256_4 ->
            [algorithm |-> "AES-CTR", hashAlgorithm |-> "SHA-256", nK |-> 16, nN |-> 12, nT |-> 4]
      [] variant = AES_GCM_128_SHA256 ->
            [algorithm |-> "AES-GCM", hashAlgorithm |-> "SHA-256", nK |-> 16, nN |-> 12, nT |-> 8]
      [] variant = AES_GCM_256_SHA512 ->
            [algorithm |-> "AES-GCM", hashAlgorithm |-> "SHA-512", nK |-> 32, nN |-> 12, nT |-> 16]

\* The key material HKDF derives from (rawKey, variant): distinct inputs give
\* distinct material.
KeyMaterial(rawKey, variant) == rawKey * 8 + variant

\* deriveBits(info = "salt", nN * 8): nN bytes fixed by the key material
SaltKey(rawKey, variant) ==
    [j \in 1..getCipherSuiteConfig(variant).nN |->
        (KeyMaterial(rawKey, variant) * 37 + j * 11) % 256]

\* A cipher suite instance; id is the object's identity (=== in the source).
createCipherSuite(id, variant, rawKey) ==
    [id |-> id, raw |-> rawKey, variant |-> variant]

(***************************************************************************)
(* IV.ts                                                                   *)
(***************************************************************************)
RECURSIVE Xor(_, _)
Xor(a, b) == IF a = 0 /\ b = 0 THEN 0
             ELSE ((a + b) % 2) + 2 * Xor(a \div 2, b \div 2)

\* (mutant) the counter is written at the start of the IV
generateIV_leftAligned(counter, salt) ==
    [j \in 1..Len(salt) |-> Xor(IF j <= Len(counter) THEN counter[j] ELSE 0, salt[j])]

generateIV(counter, salt) ==
    LET saltLength == Len(salt)
        counterLength == Len(counter)
        iv == [j \in 1..saltLength |->
                 IF j > saltLength - counterLength
                 THEN counter[j - (saltLength - counterLength)] ELSE 0]
    IN  [j \in 1..saltLength |-> Xor(iv[j], salt[j])]

(***************************************************************************)
(* WebCrypto (external): AES-GCM with the default 128 bit tag, HMAC.       *)
(***************************************************************************)
GcmTagLength == 16

HmacLength == 32

\* (mutant) AES-GCM output without the GCM tag
SubtleEncrypt_noTag(k, iv, ad, payload) ==
    [j \in 1..Len(payload) |->
        [B(0) EXCEPT !.t = "ct", !.k = k, !.n = payload[j], !.i = j, !.iv = iv]]

\* crypto.subtle.encrypt({name: "AES-GCM", iv, additionalData}, key, payload)
SubtleEncrypt(k, iv, ad, payload) ==
    [j \in 1..Len(payload) |->
        [B(0) EXCEPT !.t = "ct", !.k = k, !.n = payload[j], !.i = j, !.iv = iv]]
    \o
    [j \in 1..GcmTagLength |->
        [B(0) EXCEPT !.t = "gcm", !.k = k, !.i = j, !.iv = iv, !.ad = ad, !.pt = payload]]

\* crypto.subtle.decrypt: the plaintext, or a rejection when the tag does not
\* verify under (key, iv, additionalData)
SubtleDecrypt(k, iv, ad, data) ==
    LET len == Len(data) - GcmTagLength
        pt == [j \in 1..len |-> data[j].n]
    IN  IF len >= 0 /\ data = SubtleEncrypt(k, iv, ad, pt)
        THEN [ok |-> TRUE, payload |-> pt]
        ELSE [ok |-> FALSE, payload |-> << >>]

\* crypto.subtle.sign("HMAC", key, data)
SubtleSign(k, data) ==
    [j \in 1..HmacLength |-> [B(0) EXCEPT !.t = "mac", !.k = k, !.i = j, !.d = data]]

(***************************************************************************)
(* SFrameCrypto.ts                                                         *)
(***************************************************************************)
Config(key) == getCipherSuiteConfig(key.variant)

\* SFrameCrypto.encrypt(header, payload, skip): payload is a sequence of byte
\* values.  WebCrypto takes no AES-CTR parameters of this shape, so only the
\* AES-GCM suites produce a frame.
SFrameCryptoEncrypt(key, header, payload, skip) ==
    LET k == KeyMaterial(key.raw, key.variant)
        iv == generateIV(header.rawCounter, SaltKey(key.raw, key.variant))
        encrypted == SubtleEncrypt(k, iv, header.data, payload)
        authTagLength == Config(key).nT
        hlen == Len(header.data)
        frameSize == hlen + Len(encrypted) + authTagLength + skip
        f1 == SetAt(Zeros(frameSize), Bytes(header.data), skip)
        f2 == SetAt(f1, encrypted, skip + hlen)
        authCode == SubtleSign(k, Subarray(f2, skip, skip + hlen + Len(encrypted)))
        authTag == Subarray(authCode, 0, authTagLength)
    IN  IF Config(key).algorithm = "AES-GCM"
        THEN [ok |-> TRUE,
              frame |-> SetAt(f2, authTag, skip + Len(encrypted) + hlen),
              authTag |-> authTag]
        ELSE [ok |-> FALSE, frame |-> << >>, authTag |-> << >>]

\* SFrameCrypto.decrypt(header, encryptedFrame, skip).  On success name and
\* error are "".  When the tag differs it throws new Error('Authentication
\* error'): name "Error" and that message.  When the AEAD rejects, the
\* OperationError of crypto.subtle.decrypt propagates.
SFrameCryptoDecrypt(key, header, encryptedFrame, skip) ==
    LET k == KeyMaterial(key.raw, key.variant)
        iv == generateIV(header.rawCounter, SaltKey(key.raw, key.variant))
        authTagLength == Config(key).nT
        hlen == Len(header.data)
        frameLength == Len(encryptedFrame) - skip
        authTag == Subarray(encryptedFrame, skip + frameLength - authTagLength,
                            skip + frameLength)
        encryptedPayload == Subarray(encryptedFrame, skip + hlen,
                                     skip + frameLength - authTagLength)
        authCode == SubtleSign(k, Subarray(encryptedFrame, skip,
                                           skip + hlen + Len(encryptedPayload)))
        authenticated == \A j \in 1..authTagLength :
                            /\ j <= Len(authTag)
                            /\ authTag[j] = authCode[j]
        plain == SubtleDecrypt(k, iv, header.data, encryptedPayload)
    IN  IF ~authenticated
        THEN [ok |-> FALSE, name |-> "Error", error |-> "Authentication error",
              payload |-> << >>, authTag |-> authTag]
        ELSE IF ~plain.ok \/ Config(key).algorithm # "AES-GCM"
        THEN [ok |-> FALSE, name |-> "OperationError", error |-> "OperationError",
              payload |-> << >>, authTag |-> authTag]
        ELSE [ok |-> TRUE, name |-> "", error |-> "",
              payload |-> Bytes(plain.payload), authTag |-> authTag]

(***************************************************************************)
(* Sender.ts                                                               *)
(***************************************************************************)
\* (mutant) the clear prefix is not copied into the frame
SenderFrame_noPrefixCopy(senderId, counter, key, payload, skip) ==
    SFrameCryptoEncrypt(key, generateSFrameHeader(senderId, counter), payload, skip).frame

\* The frame Sender.encrypt returns for the counter it allocated: the frame of
\* SFrameCrypto.encrypt with payload[0, skip) copied over its first bytes.
SenderFrame(senderId, counter, key, payload, skip) ==
    LET header == generateSFrameHeader(senderId, counter)
        encryptedFrame == SFrameCryptoEncrypt(key, header, payload, skip).frame
    IN  IF skip # 0
        THEN SetAt(encryptedFrame, Bytes(Subarray(payload, 0, skip)), 0)
        ELSE encryptedFrame

(***************************************************************************)
(* State                                                                   *)
(***************************************************************************)
VARIABLES
    sender,       \* Context.sender: exists, senderId, counter, key
    receivers,    \* every Receiver object created so far, by object number
    recvMap,      \* Context.receivers: entries keyId -> Receiver object number
    timers,       \* pending setTimeout callbacks, in scheduling order
    pendSender,   \* setSenderEncryptionKey calls awaiting createSFrameCrypto
    pendRecv,     \* setReceiverEncryptionKey calls awaiting createSFrameCrypto
    pendDec,      \* Receiver.decrypt calls awaiting key.decrypt
    emitted,      \* the encrypt calls that allocated a counter, in call order
    nextKey,      \* number of the next SFrameCrypto object
    calls,        \* API calls made so far, by API
    last          \* the outcome of the call or callback that ran last

vars == <<sender, receivers, recvMap, timers, pendSender, pendRecv, pendDec,
          emitted, nextKey, calls, last>>

NoKey == [id |-> 0, raw |-> 0, variant |-> 0]

NoDesc == [senderId |-> N(0), counter |-> N(0), raw |-> 0, variant |-> 0,
           payload |-> << >>, skip |-> 0]

\* the record of an outcome; fields a call does not set keep these values
NoOutcome == [op |-> "none", outcome |-> "", desc |-> NoDesc, plain |-> << >>,
              recv |-> 0, counter |-> N(0), maxAtCall |-> MinusOne,
              hadKey |-> FALSE, sawInstall |-> FALSE, sawRetire |-> FALSE,
              dup |-> FALSE, ring |-> << >>, tried |-> << >>, errs |-> << >>,
              flag |-> FALSE, keyId |-> N(0)]

\* createSFrameCrypto(rawKey): the default variant is AES_GCM_256_SHA512
createSFrameCrypto(id, rawKey) == createCipherSuite(id, AES_GCM_256_SHA512, rawKey)

(***************************************************************************)
(* Inputs shared by the specifications                                     *)
(***************************************************************************)
RawKeys == {1, 2}

\* key material crypto.subtle.importKey rejects (not a BufferSource)
BadKey == 0

KeyIds == {N(1), N(2)}

\* payloads of 0 to MaxPayloadLen bytes, every byte of a payload different
MaxPayloadLen == 2
SampleBytes == <<202, 254, 17, 99, 128>>
Payloads == {SubSeq(SampleBytes, 1, l) : l \in 0..MaxPayloadLen}

Skips(payload) == 0..Len(payload)

\* the counters of the frames handed to a Receiver: around 0 and around
\* ReplayWindow
RpCounters == {0, 1, 129, 130}

\* the frames of the replay test of the repository: counters 0 to 199
TestFrames == 200

\* the frame a remote Sender (same code, default suite) returns
PeerFrame(senderId, counter, rawKey, payload, skip) ==
    [senderId |-> senderId, counter |-> counter, raw |-> rawKey,
     variant |-> AES_GCM_256_SHA512, payload |-> payload, skip |-> skip]

\* the frame a Sender with this id, counter and key returns for (payload, skip)
DescFrame(desc) ==
    SenderFrame(desc.senderId, desc.counter,
                createCipherSuite(0, desc.variant, desc.raw), desc.payload, desc.skip)

\* DescFrame tabulated for the descriptors the specifications use
Descs ==
    {PeerFrame(id, N(c), rawKey, payload, skip) :
        id \in KeyIds, c \in (0..3) \cup RpCounters, rawKey \in RawKeys,
        payload \in Payloads, skip \in 0..MaxPayloadLen}
    \cup {PeerFrame(N(1), N(c), 1, <<202>>, 0) : c \in 0..(TestFrames - 1)}

FrameTable == [desc \in Descs |-> DescFrame(desc)]

FrameOf(desc) == IF desc \in Descs THEN FrameTable[desc] ELSE DescFrame(desc)

Init ==
    /\ sender = [exists |-> FALSE, senderId |-> N(0), counter |-> N(0), key |-> NoKey]
    /\ receivers = << >>
    /\ recvMap = {}
    /\ timers = << >>
    /\ pendSender = {}
    /\ pendRecv = {}
    /\ pendDec = {}
    /\ emitted = << >>
    /\ nextKey = 1
    /\ calls = [setSender |-> 0, encrypt |-> 0, setReceiver |-> 0, decrypt |-> 0,
                delete |-> 0]
    /\ last = NoOutcome

(***************************************************************************)
(* Sender.ts: the methods, as functions of the Sender's fields             *)
(***************************************************************************)
\* new Sender(senderId): counter = 0, no key
NewSender(senderId) ==
    [exists |-> TRUE, senderId |-> senderId, counter |-> N(0), key |-> NoKey]

\* (mutant) setSenderId also restarts the counter
SenderSetSenderId_resetsCounter(s, senderId) ==
    [s EXCEPT !.senderId = senderId, !.counter = N(0)]

\* Sender.setSenderId, after checkSFrameHeaderKeyId passed
SenderSetSenderId(s, senderId) == [s EXCEPT !.senderId = senderId]

\* Sender.setEncryptionKey
SenderSetEncryptionKey(s, key) == [s EXCEPT !.key = key]

\* (mutant) the decrypted buffer is returned as the cipher left it
CopyClearPrefix_keepsDecrypted(decryptedFrame, frame, skip) == decryptedFrame

\* (mutant) one byte too many is copied from the frame
CopyClearPrefix_oneTooMany(decryptedFrame, frame, skip) ==
    IF skip # 0 THEN SetAt(decryptedFrame, Subarray(frame, 0, skip + 1), 0)
    ELSE decryptedFrame

\* (mutant) the key whose timer fired is removed as well
KeyringSplice_removesKeyToo(keyring, i) ==
    [kept |-> SubSeq(keyring, i + 2, Len(keyring)),
     rest |-> SubSeq(keyring, 1, i + 1)]

\* (mutant) the new key is put at the head of the keyring
KeyringPush_atHead(keyring, key) == <<key>> \o keyring

\* (mutant) the largest counter is replaced by the latest one
UpdateMaxReceivedCounter_latest(maxReceivedCounter, counter) == counter

\* (mutant) the counter is read but not incremented
SenderAllocCounter_noIncrement(s) == s

\* const counter = this.counter++
SenderAllocCounter(s) == [s EXCEPT !.counter = NumInc(s.counter)]

(***************************************************************************)
(* Context.ts: sender side                                                 *)
(***************************************************************************)
\* setSenderEncryptionKey up to its await
SetSenderEncryptionKeyCall(senderId, rawKey) ==
    /\ calls' = [calls EXCEPT !.setSender = @ + 1]
    /\ IF ~checkSFrameHeaderKeyId(senderId)
       THEN /\ last' = [NoOutcome EXCEPT !.op = "setSender",
                                         !.outcome = "InvalidHeaderKey",
                                         !.keyId = senderId]
            /\ UNCHANGED <<sender, pendSender>>
       ELSE /\ sender' = IF ~sender.exists THEN NewSender(senderId)
                         ELSE SenderSetSenderId(sender, senderId)
            /\ pendSender' = pendSender \cup
                   {[call |-> calls.setSender + 1, senderId |-> senderId, raw |-> rawKey,
                     before |-> sender]}
            /\ last' = [NoOutcome EXCEPT !.op = "setSender", !.outcome = "pending",
                                         !.keyId = senderId]
    /\ UNCHANGED <<receivers, recvMap, timers, pendRecv, pendDec, emitted, nextKey>>

\* createSFrameCrypto resolved: this.sender.setEncryptionKey(encryptionKey)
SetSenderEncryptionKeyResume ==
    \E op \in pendSender :
        /\ op.raw # BadKey
        /\ sender' = SenderSetEncryptionKey(sender, createSFrameCrypto(nextKey, op.raw))
        /\ nextKey' = nextKey + 1
        /\ pendSender' = pendSender \ {op}
        /\ last' = [NoOutcome EXCEPT !.op = "setSender", !.outcome = "ok"]
        /\ UNCHANGED <<receivers, recvMap, timers, pendRecv, pendDec, emitted, calls>>

\* createSFrameCrypto rejected: the error leaves setSenderEncryptionKey
SetSenderEncryptionKeyReject ==
    \E op \in pendSender :
        /\ op.raw = BadKey
        /\ pendSender' = pendSender \ {op}
        /\ last' = [NoOutcome EXCEPT !.op = "setSender", !.outcome = "rejected",
                                     !.keyId = op.senderId]
        /\ UNCHANGED <<sender, receivers, recvMap, timers, pendRecv, pendDec, emitted,
                       nextKey, calls>>

\* Context.encrypt and Sender.encrypt up to the await of key.encrypt: the key
\* check, the counter allocation and the header are synchronous, and the frame
\* depends on nothing that changes afterwards.
EncryptCall(payload, skip) ==
    /\ calls' = [calls EXCEPT !.encrypt = @ + 1]
    /\ IF ~sender.exists
       THEN /\ last' = [NoOutcome EXCEPT !.op = "encrypt",
                                         !.outcome = "EncryptionFailure"]
            /\ UNCHANGED <<sender, emitted>>
       ELSE IF sender.key = NoKey
       THEN /\ last' = [NoOutcome EXCEPT !.op = "encrypt", !.outcome = "InvalidKey"]
            /\ UNCHANGED <<sender, emitted>>
       ELSE /\ sender' = SenderAllocCounter(sender)
            /\ emitted' = Append(emitted,
                   [senderId |-> sender.senderId, counter |-> sender.counter,
                    key |-> sender.key.id, raw |-> sender.key.raw,
                    variant |-> sender.key.variant,
                    payload |-> payload, skip |-> skip, done |-> FALSE])
            /\ last' = [NoOutcome EXCEPT !.op = "encrypt", !.outcome = "pending"]
    /\ UNCHANGED <<receivers, recvMap, timers, pendSender, pendRecv, pendDec, nextKey>>

\* the descriptor of an emitted frame
Desc(e) == [senderId |-> e.senderId, counter |-> e.counter, raw |-> e.raw,
            variant |-> e.variant, payload |-> e.payload, skip |-> e.skip]

\* key.encrypt resolved: Sender.encrypt copies the clear prefix and returns
EncryptResume ==
    \E j \in 1..Len(emitted) :
        /\ ~emitted[j].done
        /\ emitted' = [emitted EXCEPT ![j].done = TRUE]
        /\ last' = [NoOutcome EXCEPT !.op = "encrypt", !.outcome = "ok",
                                     !.desc = Desc(emitted[j]),
                                     !.counter = emitted[j].counter]
        /\ UNCHANGED <<sender, receivers, recvMap, timers, pendSender, pendRecv,
                       pendDec, nextKey, calls>>

(***************************************************************************)
(* Receiver.ts (second half of Context.ts in this tree)                    *)
(***************************************************************************)
ReplayWindow == 128

KeyTimeout == 1000

\* the clock of the model advances in steps of at most TickMs milliseconds
TickMs == 500

\* (mutant) a Receiver that starts with maxReceivedCounter 0
NewReceiver_startsAtZero(keyId) ==
    [keyId |-> keyId, maxReceivedCounter |-> N(0), keyring |-> << >>,
     scheduledKeys |-> {}, installed |-> << >>, fired |-> 0, accepted |-> {}]

\* new Receiver(senderId).  installed, fired and accepted are history: every
\* key object ever pushed, the place in installed of the key whose timer fired
\* last, and the frames decrypted successfully so far.
NewReceiver(keyId) ==
    [keyId |-> keyId, maxReceivedCounter |-> MinusOne, keyring |-> << >>,
     scheduledKeys |-> {}, installed |-> << >>, fired |-> 0, accepted |-> {}]

\* (mutant) every counter that is not above maxReceivedCounter is rejected
checkForReplayAttack_rejectsSeen(maxReceivedCounter, counter) ==
    ~NumLT(maxReceivedCounter, counter)

\* (mutant) a counter is rejected at distance ReplayWindow already
checkForReplayAttack_windowInclusive(maxReceivedCounter, counter) ==
    /\ NumLT(counter, maxReceivedCounter)
    /\ NumDiffGT(maxReceivedCounter, counter, ReplayWindow - 1)

\* checkForReplayAttack: TRUE when it throws ReplayAttackError
checkForReplayAttack(maxReceivedCounter, counter) ==
    /\ NumLT(counter, maxReceivedCounter)
    /\ NumDiffGT(maxReceivedCounter, counter, ReplayWindow)

\* this.keyring.push(key)
KeyringPush(keyring, key) == Append(keyring, key)

\* schedulePreviousKeysTimeout up to setTimeout: TRUE when a timer is scheduled
\* for key, given the keyring after the push
SchedulesTimeout(keyring, scheduledKeys, key) ==
    /\ ~(Len(keyring) = 1 /\ keyring[1].id = key.id)
    /\ key.id \notin scheduledKeys

\* (mutant) scheduling a timer restarts the Receiver's pending timers
ScheduleTimer_restartsPending(pending, recv, keyId) ==
    [j \in 1..Len(pending) |->
        IF pending[j].recv = recv THEN [pending[j] EXCEPT !.left = KeyTimeout]
        ELSE pending[j]]
    \o <<[recv |-> recv, key |-> keyId, left |-> KeyTimeout]>>

\* (mutant) a newly scheduled callback runs before the ones already pending
ScheduleTimer_newestFirst(pending, recv, keyId) ==
    <<[recv |-> recv, key |-> keyId, left |-> KeyTimeout]>> \o pending

\* setTimeout(callback, KeyTimeout): the callback joins the pending ones and is
\* due KeyTimeout milliseconds from now
ScheduleTimer(pending, recv, keyId) ==
    Append(pending, [recv |-> recv, key |-> keyId, left |-> KeyTimeout])

\* this.keyring.findIndex((k) => k === key), 0-based, -1 when absent
FindIndex(keyring, keyId) ==
    IF \E j \in 1..Len(keyring) : keyring[j].id = keyId
    THEN (CHOOSE j \in 1..Len(keyring) :
             /\ keyring[j].id = keyId
             /\ \A h \in 1..(j - 1) : keyring[h].id # keyId) - 1
    ELSE -1

\* this.keyring = this.keyring.splice(i): splice removes the elements from i on
\* from the array object (a negative i counts from the end) and returns them.
\* kept is the new this.keyring, rest what the old array object still holds.
KeyringSplice(keyring, i) ==
    LET start == IF i < 0 THEN (IF Len(keyring) + i < 0 THEN 0 ELSE Len(keyring) + i)
                 ELSE IF i > Len(keyring) THEN Len(keyring) ELSE i
    IN  [kept |-> SubSeq(keyring, start + 1, Len(keyring)),
         rest |-> SubSeq(keyring, 1, start)]

\* (mutant) the loop visits the newest key first
KeyAt_newestFirst(snapshot, i) == snapshot[Len(snapshot) - i]

\* const key = keyRingSnapshot[i]
KeyAt(snapshot, i) == snapshot[i + 1]

\* (mutant) the loop always iterates the Receiver's own array
SnapshotKind_neverCopies(keyring) == "alias"

\* const keyRingSnapshot = this.keyring.length > 1 ? this.keyring.slice() : this.keyring
\* "copy" is a private array, "alias" the Receiver's own array object
SnapshotKind(keyring) == IF Len(keyring) > 1 THEN "copy" ELSE "alias"

\* Math.max(header.counter, this.maxReceivedCounter)
UpdateMaxReceivedCounter(maxReceivedCounter, counter) ==
    NumMax(counter, maxReceivedCounter)

\* decryptedFrame.set(frameToBeDecrypted.subarray(0, skip), 0) when skip is not 0
CopyClearPrefix(decryptedFrame, frame, skip) ==
    IF skip # 0 THEN SetAt(decryptedFrame, Subarray(frame, 0, skip), 0)
    ELSE decryptedFrame

(***************************************************************************)
(* Context.ts: receiver side                                               *)
(***************************************************************************)
Has(keyId) == \E m \in recvMap : m.keyId = keyId

\* (mutant) the lookup returns a Receiver of the map whatever its key id
Get_anyReceiver(keyId) == (CHOOSE m \in recvMap : TRUE).recv

\* this.receivers.get(keyId)
Get(keyId) == (CHOOSE m \in recvMap : m.keyId = keyId).recv

\* (mutant) a missing Receiver is reported like a failed decryption
MissingReceiverError_decryptionFailure == "DecryptionFailure"

\* the error Context.decrypt throws when no Receiver is registered
MissingReceiverError == "InvalidKey"


SameMaterial(key, desc) ==
    KeyMaterial(key.raw, key.variant) = KeyMaterial(desc.raw, desc.variant)

HoldsKeyFor(keyring, desc) ==
    \E j \in 1..Len(keyring) : SameMaterial(keyring[j], desc)

\* setReceiverEncryptionKey up to its await
SetReceiverEncryptionKeyCall(keyId, rawKey) ==
    /\ calls' = [calls EXCEPT !.setReceiver = @ + 1]
    /\ IF Has(keyId)
       THEN /\ pendRecv' = pendRecv \cup
                   {[call |-> calls.setReceiver + 1, recv |-> Get(keyId), raw |-> rawKey,
                     keyId |-> keyId, had |-> TRUE]}
            /\ last' = [NoOutcome EXCEPT !.op = "setReceiver", !.outcome = "pending",
                                         !.recv = Get(keyId), !.keyId = keyId]
            /\ UNCHANGED <<receivers, recvMap>>
       ELSE IF ~checkSFrameHeaderKeyId(keyId)
       THEN /\ last' = [NoOutcome EXCEPT !.op = "setReceiver",
                                         !.outcome = "InvalidHeaderKey",
                                         !.keyId = keyId]
            /\ UNCHANGED <<receivers, recvMap, pendRecv>>
       ELSE /\ receivers' = Append(receivers, NewReceiver(keyId))
            /\ recvMap' = recvMap \cup {[keyId |-> keyId, recv |-> Len(receivers) + 1]}
            /\ pendRecv' = pendRecv \cup
                   {[call |-> calls.setReceiver + 1, recv |-> Len(receivers) + 1,
                     raw |-> rawKey, keyId |-> keyId, had |-> FALSE]}
            /\ last' = [NoOutcome EXCEPT !.op = "setReceiver", !.outcome = "pending",
                                         !.recv = Len(receivers) + 1, !.keyId = keyId]
    /\ UNCHANGED <<sender, timers, pendSender, pendDec, emitted, nextKey>>

\* createSFrameCrypto resolved: receiver.setEncryptionKey(receiverKey), on the
\* Receiver object the call looked up before the await
SetReceiverEncryptionKeyResume ==
    \E op \in pendRecv :
        LET r == receivers[op.recv]
            key == createSFrameCrypto(nextKey, op.raw)
            keyring == KeyringPush(r.keyring, key)
            schedules == SchedulesTimeout(keyring, r.scheduledKeys, key)
        IN  /\ op.raw # BadKey
            /\ receivers' = [receivers EXCEPT ![op.recv] =
                   [r EXCEPT !.keyring = keyring,
                             !.installed = Append(@, key),
                             !.scheduledKeys = IF schedules THEN @ \cup {key.id} ELSE @]]
            /\ timers' = IF schedules THEN ScheduleTimer(timers, op.recv, key.id)
                         ELSE timers
            /\ pendDec' = {[d EXCEPT !.sawInstall = @ \/ d.recv = op.recv] : d \in pendDec}
            /\ nextKey' = nextKey + 1
            /\ pendRecv' = pendRecv \ {op}
            /\ last' = [NoOutcome EXCEPT !.op = "setReceiver", !.outcome = "ok",
                                         !.recv = op.recv, !.flag = schedules]
            /\ UNCHANGED <<sender, recvMap, pendSender, emitted, calls>>

\* createSFrameCrypto rejected: the error leaves setReceiverEncryptionKey
SetReceiverEncryptionKeyReject ==
    \E op \in pendRecv :
        /\ op.raw = BadKey
        /\ pendRecv' = pendRecv \ {op}
        /\ last' = [NoOutcome EXCEPT !.op = "setReceiver", !.outcome = "rejected",
                                     !.recv = op.recv, !.keyId = op.keyId]
        /\ UNCHANGED <<sender, receivers, recvMap, timers, pendSender, pendDec, emitted,
                       nextKey, calls>>

\* canEncrypt(): return !!this.sender
canEncrypt == sender.exists

\* canDecrypt(keyId): return this.receivers.has(keyId)
canDecrypt(keyId) == Has(keyId)

\* (mutant) deleteReceiver also drops the decrypts pending on the Receiver
DeleteReceiver_cancelsPending(keyId) ==
    /\ calls' = [calls EXCEPT !.delete = @ + 1]
    /\ recvMap' = {m \in recvMap : m.keyId # keyId}
    /\ pendDec' = {d \in pendDec : \A m \in recvMap : m.keyId = keyId => d.recv # m.recv}
    /\ last' = [NoOutcome EXCEPT !.op = "delete", !.outcome = "ok", !.flag = Has(keyId),
                                 !.keyId = keyId]
    /\ UNCHANGED <<sender, receivers, timers, pendSender, pendRecv, emitted, nextKey>>

\* (mutant) deleteReceiver reports true whether or not the key id was registered
DeleteReceiver_reportsTrue(keyId) ==
    /\ calls' = [calls EXCEPT !.delete = @ + 1]
    /\ recvMap' = {m \in recvMap : m.keyId # keyId}
    /\ last' = [NoOutcome EXCEPT !.op = "delete", !.outcome = "ok", !.flag = TRUE,
                                 !.keyId = keyId]
    /\ UNCHANGED <<sender, receivers, timers, pendSender, pendRecv, pendDec, emitted,
                   nextKey>>

\* deleteReceiver: this.receivers.delete(receiverKeyId); flag is what it returns
DeleteReceiver(keyId) ==
    /\ calls' = [calls EXCEPT !.delete = @ + 1]
    /\ recvMap' = {m \in recvMap : m.keyId # keyId}
    /\ last' = [NoOutcome EXCEPT !.op = "delete", !.outcome = "ok", !.flag = Has(keyId),
                                 !.keyId = keyId]
    /\ UNCHANGED <<sender, receivers, timers, pendSender, pendRecv, pendDec, emitted,
                   nextKey>>

\* the setTimeout callback of schedulePreviousKeysTimeout
KeyTimeoutFires ==
    /\ timers # << >>
    /\ Head(timers).left = 0
    /\ LET t == Head(timers)
           r == receivers[t.recv]
           i == FindIndex(r.keyring, t.key)
           after == KeyringSplice(r.keyring, i)
           place == CHOOSE j \in 1..Len(r.installed) : r.installed[j].id = t.key
       IN  /\ receivers' = [receivers EXCEPT ![t.recv] =
                  [r EXCEPT !.keyring = after.kept, !.fired = place]]
           /\ pendDec' = {IF d.recv # t.recv THEN d
                          ELSE IF d.snap = "alias"
                          THEN [d EXCEPT !.snap = "stale", !.view = after.rest,
                                         !.sawRetire = @ \/ after.rest # << >>]
                          ELSE [d EXCEPT !.sawRetire = @ \/ after.rest # << >>]
                          : d \in pendDec}
           /\ last' = [NoOutcome EXCEPT !.op = "timer", !.outcome = "ok",
                                        !.recv = t.recv, !.flag = (i >= 0)]
    /\ timers' = Tail(timers)
    /\ UNCHANGED <<sender, recvMap, pendSender, pendRecv, emitted, nextKey, calls>>

\* time passes: by TickMs, or up to the next timer's deadline if that is sooner
Tick ==
    /\ timers # << >>
    /\ Head(timers).left > 0
    /\ LET d == IF Head(timers).left < TickMs THEN Head(timers).left ELSE TickMs
       IN  timers' = [j \in 1..Len(timers) |-> [timers[j] EXCEPT !.left = @ - d]]
    /\ UNCHANGED <<sender, receivers, recvMap, pendSender, pendRecv, pendDec, emitted,
                   nextKey, calls, last>>

\* the header Context.decrypt parses from encryptedFrame.subarray(skip)
ParsedHeader(frame, skip) == parseSFrameHeader(Vals(Subarray(frame, skip, Len(frame))))

FrameHeader(desc) == ParsedHeader(FrameOf(desc), desc.skip)

\* the array a suspended decrypt iterates: its private copy, the Receiver's live
\* array, or what is left in the array object the Receiver has replaced
SnapshotOf(d) == IF d.snap = "alias" THEN receivers[d.recv].keyring ELSE d.view

\* Receiver.decrypt(header, encryptedFrame, skip) up to its first await, on the
\* Receiver the Context holds for header.keyId, or the Context's InvalidKey
ReceiverDecryptCall(desc, header) ==
    LET recv == Get(header.keyId)
        r == receivers[recv]
        out == [NoOutcome EXCEPT !.op = "decrypt", !.desc = desc,
                                 !.counter = header.counter]
    IN
    /\ calls' = [calls EXCEPT !.decrypt = @ + 1]
    /\ IF ~Has(header.keyId)
       THEN /\ last' = [out EXCEPT !.outcome = MissingReceiverError]
            /\ UNCHANGED pendDec
       ELSE LET bound == [out EXCEPT !.recv = recv,
                                     !.maxAtCall = r.maxReceivedCounter,
                                     !.hadKey = HoldsKeyFor(r.keyring, desc),
                                     !.dup = desc \in r.accepted,
                                     !.ring = r.keyring]
            IN  IF checkForReplayAttack(r.maxReceivedCounter, header.counter)
                THEN /\ last' = [bound EXCEPT !.outcome = "ReplayAttackError"]
                     /\ UNCHANGED pendDec
                ELSE IF Len(r.keyring) = 0
                THEN /\ last' = [bound EXCEPT !.outcome = "DecryptionFailure"]
                     /\ UNCHANGED pendDec
                ELSE /\ pendDec' = pendDec \cup
                            {[call |-> calls.decrypt + 1, desc |-> desc, recv |-> recv,
                              i |-> 0, key |-> KeyAt(r.keyring, 0),
                              snap |-> SnapshotKind(r.keyring),
                              view |-> IF SnapshotKind(r.keyring) = "copy"
                                       THEN r.keyring ELSE << >>,
                              maxAtCall |-> r.maxReceivedCounter,
                              hadKey |-> HoldsKeyFor(r.keyring, desc),
                              dup |-> desc \in r.accepted,
                              sawInstall |-> FALSE, sawRetire |-> FALSE,
                              ring |-> r.keyring, tried |-> << >>, errs |-> << >>]}
                     /\ last' = [bound EXCEPT !.outcome = "pending"]
    /\ UNCHANGED <<sender, receivers, recvMap, timers, pendSender, pendRecv, emitted,
                   nextKey>>

\* Context.decrypt(encryptedFrame, skip): the header is parsed, then the
\* Receiver's decrypt runs up to its first await; desc names the frame, skip is
\* desc.skip
DecryptCall(desc) == ReceiverDecryptCall(desc, FrameHeader(desc))

\* the rest of Receiver.decrypt once key.decrypt of the pending attempt d has
\* settled with res: on success the counter is updated and the clear prefix
\* copied; on failure the loop goes to the next key of the snapshot or, after
\* the last one, throws DecryptionFailure
ReceiverDecryptResume(d, frame, header, res) ==
    LET snapshot == SnapshotOf(d)
        r == receivers[d.recv]
        tried == Append(d.tried, d.key)
        errs == IF res.ok THEN d.errs
                ELSE Append(d.errs, [name |-> res.name, message |-> res.error])
        out == [NoOutcome EXCEPT !.op = "decrypt", !.desc = d.desc,
                                 !.counter = header.counter, !.recv = d.recv,
                                 !.maxAtCall = d.maxAtCall, !.hadKey = d.hadKey,
                                 !.sawInstall = d.sawInstall,
                                 !.sawRetire = d.sawRetire, !.dup = d.dup,
                                 !.ring = d.ring, !.tried = tried, !.errs = errs]
    IN  /\ IF res.ok
           THEN /\ receivers' = [receivers EXCEPT ![d.recv] =
                       [r EXCEPT !.maxReceivedCounter =
                                     UpdateMaxReceivedCounter(@, header.counter),
                                 !.accepted = @ \cup {d.desc}]]
                /\ pendDec' = pendDec \ {d}
                /\ last' = [out EXCEPT !.outcome = "ok",
                                       !.plain = CopyClearPrefix(res.payload, frame,
                                                                 d.desc.skip)]
           ELSE IF d.i + 1 < Len(snapshot)
           THEN /\ pendDec' = (pendDec \ {d}) \cup
                       {[d EXCEPT !.i = d.i + 1, !.key = KeyAt(snapshot, d.i + 1),
                                  !.tried = tried, !.errs = errs]}
                /\ last' = [out EXCEPT !.outcome = "pending"]
                /\ UNCHANGED receivers
           ELSE /\ pendDec' = pendDec \ {d}
                /\ last' = [out EXCEPT !.outcome = "DecryptionFailure"]
                /\ UNCHANGED receivers
        /\ UNCHANGED <<sender, recvMap, timers, pendSender, pendRecv, emitted,
                       nextKey, calls>>

\* key.decrypt(header, encryptedFrame, skip) of the pending attempt d
KeyDecrypt(d, frame, header) ==
    ReceiverDecryptResume(d, frame, header,
                          SFrameCryptoDecrypt(d.key, header, frame, d.desc.skip))

\* key.decrypt of a pending attempt settles and Receiver.decrypt goes on
DecryptResume ==
    \E d \in pendDec : KeyDecrypt(d, FrameOf(d.desc), FrameHeader(d.desc))

\* a direct call of the exported generateSFrameHeader(keyId, counter)
GenerateHeader(keyId, counter) ==
    LET header == generateSFrameHeader(keyId, counter)
    IN  /\ last' = [NoOutcome EXCEPT !.op = "generate",
                                     !.outcome = IF header.error = "" THEN "ok"
                                                 ELSE header.error,
                                     !.keyId = keyId, !.counter = counter,
                                     !.plain = Bytes(header.data)]
        /\ UNCHANGED <<sender, receivers, recvMap, timers, pendSender, pendRecv,
                       pendDec, emitted, nextKey, calls>>

(***************************************************************************)
(* Helpers of the specifications                                           *)
(***************************************************************************)
\* frames the Context's own Sender has returned
SentFrames == {Desc(emitted[j]) : j \in {h \in 1..Len(emitted) : emitted[h].done}}

\* no call is in flight: the caller serialises its calls
Idle ==
    /\ pendSender = {}
    /\ pendRecv = {}
    /\ pendDec = {}
    /\ \A j \in 1..Len(emitted) : emitted[j].done

ToInt(x) == x[1] * LimbBase + x[2]

(***************************************************************************)
(* SpecSender: the sender side of one Context under every interleaving of  *)
(* setSenderEncryptionKey and encrypt calls and of their resolutions.      *)
(***************************************************************************)
SndMaxSetSender == 2
SndMaxEncrypt == 3

SndPayload == <<202, 254>>

SndSetSenderEncryptionKey ==
    \E id \in KeyIds, rawKey \in RawKeys :
        /\ calls.setSender < SndMaxSetSender
        /\ SetSenderEncryptionKeyCall(id, rawKey)

SndEncrypt ==
    /\ calls.encrypt < SndMaxEncrypt
    /\ EncryptCall(SndPayload, 0)

NextSender ==
    \/ SndSetSenderEncryptionKey
    \/ SetSenderEncryptionKeyResume
    \/ SndEncrypt
    \/ EncryptResume

SpecSender == Init /\ [][NextSender]_vars

\* C3: the j-th encrypt call that passed the key check (j = 1, 2, ...) returns a
\* frame whose header, once parsed, carries counter j - 1, whether or not earlier calls have
\* resolved: counters start at 0, are distinct and follow call order.
C3_CounterIsCallIndex ==
    \A j \in 1..Len(emitted) :
        LET header == generateSFrameHeader(emitted[j].senderId, emitted[j].counter)
        IN  ToInt(parseSFrameHeader(header.data).counter) = j - 1

\* C3 witness: three encrypt calls are in flight at once, none resolved
C3_Witness ==
    /\ Len(emitted) = 3
    /\ \A j \in 1..3 : ~emitted[j].done

\* C4: a step of setSenderEncryptionKey (the call, which sets the sender id, or
\* its resolution, which sets the key) on a Context that has a sender leaves
\* the counter as it was, and consecutive frames that differ in sender id or in
\* key carry consecutive counters.
C4_ConsecutiveAcrossChange ==
    \A j \in 1..(Len(emitted) - 1) :
        (emitted[j].senderId # emitted[j + 1].senderId \/ emitted[j].key # emitted[j + 1].key)
            => ToInt(emitted[j + 1].counter) = ToInt(emitted[j].counter) + 1

C4_SetKeepsCounter ==
    (sender.exists /\ last'.op = "setSender") => sender'.counter = sender.counter

\* C4: changing the sender id or the key never resets the counter.
C4_NoCounterReset == [](C4_ConsecutiveAcrossChange) /\ [][C4_SetKeepsCounter]_vars

\* C4 witness: two consecutive frames differ in sender id and in key
C4_Witness ==
    \E j \in 1..(Len(emitted) - 1) :
        /\ emitted[j].senderId # emitted[j + 1].senderId
        /\ emitted[j].key # emitted[j + 1].key

(***************************************************************************)
(* SpecOverflow: a Sender that has already encrypted 2^53 - OvStart frames *)
(* goes on encrypting.                                                     *)
(***************************************************************************)
OvStart == 2
OvMaxEncrypt == 4

OvCounter == <<TwoPow53[1] - 1, LimbBase - OvStart>>

InitOverflow ==
    /\ sender = [exists |-> TRUE, senderId |-> N(1), counter |-> OvCounter,
                 key |-> createSFrameCrypto(1, 1)]
    /\ receivers = << >>
    /\ recvMap = {}
    /\ timers = << >>
    /\ pendSender = {}
    /\ pendRecv = {}
    /\ pendDec = {}
    /\ emitted = << >>
    /\ nextKey = 2
    /\ calls = [setSender |-> 1, encrypt |-> 0, setReceiver |-> 0, decrypt |-> 0,
                delete |-> 0]
    /\ last = NoOutcome

OvEncrypt ==
    \E payload \in {<< >>, <<202>>, <<202, 254>>} :
        \E skip \in Skips(payload) :
            /\ calls.encrypt < OvMaxEncrypt
            /\ EncryptCall(payload, skip)

NextOverflow ==
    \/ OvEncrypt
    \/ EncryptResume

SpecOverflow == InitOverflow /\ [][NextOverflow]_vars

\* C5: the header counters of the frames one Sender emits are strictly
\* increasing in call order, so no counter value is ever emitted twice.
C5_NoCounterTwice ==
    \A j, h \in 1..Len(emitted) :
        j < h => NumLT(parseSFrameHeader(generateSFrameHeader(
                           emitted[j].senderId, emitted[j].counter).data).counter,
                       parseSFrameHeader(generateSFrameHeader(
                           emitted[h].senderId, emitted[h].counter).data).counter)

(***************************************************************************)
(* SpecRoundTrip: one Context encrypts with its Sender and decrypts its    *)
(* own frames with the Receiver it holds for some key id.  The calls are   *)
(* made one after the other, each after the previous one has settled.      *)
(***************************************************************************)
RtMaxEncrypt == 1
RtMaxDecrypt == 2

RtSetSenderEncryptionKey ==
    /\ calls.setSender = 0
    /\ SetSenderEncryptionKeyCall(N(1), 1)

RtSetReceiverEncryptionKey ==
    \E id \in KeyIds, rawKey \in RawKeys :
        /\ calls.setReceiver = 0
        /\ SetReceiverEncryptionKeyCall(id, rawKey)

RtEncrypt ==
    \E payload \in Payloads :
        \E skip \in Skips(payload) :
            /\ calls.encrypt < RtMaxEncrypt
            /\ Idle
            /\ EncryptCall(payload, skip)

RtDecrypt ==
    \E desc \in SentFrames :
        /\ calls.decrypt < RtMaxDecrypt
        /\ Idle
        /\ DecryptCall(desc)

NextRoundTrip ==
    \/ RtSetSenderEncryptionKey
    \/ SetSenderEncryptionKeyResume
    \/ RtSetReceiverEncryptionKey
    \/ SetReceiverEncryptionKeyResume
    \/ RtEncrypt
    \/ EncryptResume
    \/ RtDecrypt
    \/ DecryptResume

SpecRoundTrip == Init /\ [][NextRoundTrip]_vars

\* the decrypt that ran last has settled
DecryptSettled == last.op = "decrypt" /\ last.outcome # "pending"

\* the frame's counter was inside the replay window when decrypt was called
InsideWindow ==
    ~(/\ ToInt(last.counter) < ToInt(last.maxAtCall)
      /\ ToInt(last.maxAtCall) - ToInt(last.counter) > 128)

\* C1: a frame the Sender returned for (P, s), decrypted with the same s by a
\* Receiver that is registered under the frame's key id and holds a key of the
\* same raw key, while the counter is inside the replay window, yields P.
C1_RoundTrip ==
    (DecryptSettled /\ last.hadKey /\ InsideWindow)
        => /\ last.outcome = "ok"
           /\ last.plain = Bytes(last.desc.payload)

C1_Witness ==
    /\ DecryptSettled
    /\ last.hadKey
    /\ last.outcome = "ok"
    /\ Len(last.desc.payload) = 2
    /\ last.desc.skip = 1

\* C2: the first s bytes of the frame encrypt(P, s) returns are P[0, s), and
\* the bytes from offset s on are the SFrame header of the Sender's id and of
\* the counter of that call.
C2_ClearPrefix ==
    (last.op = "encrypt" /\ last.outcome = "ok")
        => LET frame == FrameOf(last.desc)
               s == last.desc.skip
               header == generateSFrameHeader(last.desc.senderId, last.desc.counter)
           IN  /\ Len(frame) >= s + Len(header.data)
               /\ SubSeq(frame, 1, s) = Bytes(SubSeq(last.desc.payload, 1, s))
               /\ SubSeq(frame, s + 1, s + Len(header.data)) = Bytes(header.data)

C2_Witness ==
    /\ last.op = "encrypt"
    /\ last.outcome = "ok"
    /\ last.desc.skip = 2

(***************************************************************************)
(* SpecReplay: a Receiver registered under key id 1 with raw key 1 is      *)
(* handed frames of a remote Sender, with counters around 0 and around     *)
(* ReplayWindow, in any order and any number of times, while earlier       *)
(* decrypt calls may still be pending.                                     *)
(***************************************************************************)
RpMaxDecrypt == 3

RpSetReceiverEncryptionKey ==
    /\ calls.setReceiver = 0
    /\ SetReceiverEncryptionKeyCall(N(1), 1)

RpDecrypt ==
    \E c \in RpCounters, rawKey \in RawKeys :
        /\ calls.decrypt < RpMaxDecrypt
        /\ DecryptCall(PeerFrame(N(1), N(c), rawKey, <<202, 254>>, 1))

NextReplay ==
    \/ RpSetReceiverEncryptionKey
    \/ SetReceiverEncryptionKeyResume
    \/ RpDecrypt
    \/ DecryptResume

SpecReplay == Init /\ [][NextReplay]_vars

\* C6: a decrypt that reaches a Receiver throws ReplayAttackError exactly when
\* the frame's counter c and the Receiver's maxReceivedCounter m at the time of
\* the call satisfy c < m and m - c > 128, and it throws it before any key has
\* been tried.
C6_ReplayExactly ==
    (last.op = "decrypt" /\ last.recv # 0)
        => /\ (last.outcome = "ReplayAttackError") <=> ~InsideWindow
           /\ (last.outcome = "ReplayAttackError") => last.tried = << >>

C6_Witness ==
    /\ last.op = "decrypt"
    /\ last.outcome = "ReplayAttackError"
    /\ ~last.hadKey
    /\ ToInt(last.maxAtCall) - ToInt(last.counter) = 129

\* C8: a frame the Receiver has already decrypted successfully is decrypted
\* again, to the same plaintext, whenever its counter is still inside the
\* replay window and the keyring still holds its key.
C8_DuplicateAccepted ==
    (DecryptSettled /\ last.dup /\ last.hadKey /\ InsideWindow)
        => /\ last.outcome = "ok"
           /\ last.plain = Bytes(last.desc.payload)

C8_Witness ==
    /\ DecryptSettled
    /\ last.dup
    /\ last.outcome = "ok"
    /\ ToInt(last.maxAtCall) - ToInt(last.counter) = 128

(***************************************************************************)
(* SpecReplayTest: the 'Replay attack' test of the repository.  TestFrames *)
(* frames are encrypted one after the other and then decrypted one after   *)
(* the other, the last one first.                                          *)
(***************************************************************************)
TsSetSenderEncryptionKey ==
    /\ calls.setSender = 0
    /\ SetSenderEncryptionKeyCall(N(1), 1)

TsSetReceiverEncryptionKey ==
    /\ calls.setSender = 1
    /\ calls.setReceiver = 0
    /\ Idle
    /\ SetReceiverEncryptionKeyCall(N(1), 1)

TsEncrypt ==
    /\ calls.setReceiver = 1
    /\ calls.encrypt < TestFrames
    /\ Idle
    /\ EncryptCall(<<202>>, 0)

TsDecrypt ==
    /\ calls.encrypt = TestFrames
    /\ calls.decrypt < TestFrames
    /\ Idle
    /\ DecryptCall(Desc(emitted[TestFrames - calls.decrypt]))

NextReplayTest ==
    \/ TsSetSenderEncryptionKey
    \/ SetSenderEncryptionKeyResume
    \/ TsSetReceiverEncryptionKey
    \/ SetReceiverEncryptionKeyResume
    \/ TsEncrypt
    \/ EncryptResume
    \/ TsDecrypt
    \/ DecryptResume

SpecReplayTest == Init /\ [][NextReplayTest]_vars

RoMaxSetReceiver == 3
RoMaxDecrypt == 2

RoSetReceiverEncryptionKey ==
    \E rawKey \in RawKeys :
        /\ calls.setReceiver < RoMaxSetReceiver
        /\ SetReceiverEncryptionKeyCall(N(1), rawKey)

RoDecrypt ==
    \E rawKey \in RawKeys :
        /\ calls.decrypt < RoMaxDecrypt
        /\ pendDec = {}
        /\ DecryptCall(PeerFrame(N(1), N(0), rawKey, <<202>>, 0))

NextRotate ==
    \/ RoSetReceiverEncryptionKey
    \/ SetReceiverEncryptionKeyResume
    \/ Tick
    \/ KeyTimeoutFires
    \/ RoDecrypt
    \/ DecryptResume

SpecRotate == Init /\ [][NextRotate]_vars

\* the place of a key object in the Receiver's installation history, 0 if none
Place(r, keyId) ==
    IF \E p \in 1..Len(r.installed) : r.installed[p].id = keyId
    THEN CHOOSE p \in 1..Len(r.installed) : r.installed[p].id = keyId
    ELSE 0

InKeyring(r, keyId) == \E j \in 1..Len(r.keyring) : r.keyring[j].id = keyId

\* C9: a key stays in the keyring exactly until the retirement timer of a key
\* installed after it has fired, every pending timer belongs to a key installed
\* after the one whose timer fired last, and a decrypt inside the replay window
\* succeeds when the keyring held a key of the frame's raw key at the call and
\* fails when it did not (and none was installed while the call was pending).
C9_KeyRotation ==
    /\ \A n \in 1..Len(receivers) :
          LET r == receivers[n]
          IN  /\ \A p \in 1..Len(r.installed) :
                    InKeyring(r, r.installed[p].id) <=> p >= r.fired
              /\ \A j \in 1..Len(timers) :
                    timers[j].recv = n => Place(r, timers[j].key) > r.fired
    /\ (DecryptSettled /\ last.recv # 0 /\ InsideWindow)
          => /\ last.hadKey => last.outcome = "ok"
             /\ (~last.hadKey /\ ~last.sawInstall) => last.outcome = "DecryptionFailure"

C9_Witness ==
    /\ DecryptSettled
    /\ last.outcome = "DecryptionFailure"
    /\ ~last.sawInstall
    /\ LET r == receivers[last.recv]
       IN  /\ r.fired = 2
           /\ r.installed[1].raw = last.desc.raw
           /\ r.installed[2].raw # last.desc.raw
           /\ Len(r.keyring) = 1

\* C10: once a key has been installed the keyring is not empty and holds the
\* most recently installed keys in installation order, the newest one last; and
\* a step that removes keys is the timer callback of a key k that leaves k at
\* the head of the keyring.
C10_Suffix ==
    \A n \in 1..Len(receivers) :
        LET r == receivers[n]
            kept == Len(r.keyring)
            all == Len(r.installed)
        IN  all > 0 => /\ kept > 0
                       /\ r.keyring = SubSeq(r.installed, all - kept + 1, all)

C10_RemovesOlderOnly ==
    \A n \in 1..Len(receivers) :
        Len(receivers'[n].keyring) < Len(receivers[n].keyring)
            => /\ last'.op = "timer"
               /\ last'.recv = n
               /\ receivers'[n].keyring[1].id = Head(timers).key
               /\ receivers'[n].keyring =
                      SubSeq(receivers[n].keyring,
                             Len(receivers[n].keyring) - Len(receivers'[n].keyring) + 1,
                             Len(receivers[n].keyring))

\* C10: the keyring invariant and the retirement step together.
C10_KeyringInvariant == [](C10_Suffix) /\ [][C10_RemovesOlderOnly]_vars

C10_Witness ==
    \E n \in 1..Len(receivers) :
        /\ receivers[n].fired = 2
        /\ Len(receivers[n].installed) = 3
        /\ Len(receivers[n].keyring) = 2
        /\ last.op = "timer"

\* the pending timers of Receiver n for the key object keyId
TimersOf(n, keyId) ==
    {j \in 1..Len(timers) : timers[j].recv = n /\ timers[j].key = keyId}

\* every key installed after the first has one pending timer until it has
\* fired and none afterwards; while the timer of the key at place p is pending
\* the key before it is still in the keyring, and once it has fired every
\* older key is gone
C11_OneTimerPerKey ==
    \A n \in 1..Len(receivers) :
        LET r == receivers[n]
        IN  \A p \in 2..Len(r.installed) :
                LET ts == TimersOf(n, r.installed[p].id)
                IN  /\ Cardinality(ts) = IF p > r.fired THEN 1 ELSE 0
                    /\ \A j \in ts : /\ timers[j].left >= 0
                                     /\ timers[j].left <= KeyTimeout
                                     /\ InKeyring(r, r.installed[p - 1].id)
                    /\ p <= r.fired
                          => \A q \in 1..(p - 1) : ~InKeyring(r, r.installed[q].id)

\* a step leaves each pending timer's deadline where it was: either the timer
\* is due and fires, or it stays pending with no more time left than before,
\* and with exactly as much unless the step is time passing and nothing else
C11_DeadlineKept ==
    \A j \in 1..Len(timers) :
        \/ /\ j = 1
           /\ timers[1].left = 0
           /\ timers' = Tail(timers)
           /\ last'.op = "timer"
        \/ \E h \in 1..Len(timers') :
              /\ timers'[h].recv = timers[j].recv
              /\ timers'[h].key = timers[j].key
              /\ timers'[h].left <= timers[j].left
              /\ \/ timers'[h].left = timers[j].left
                 \/ UNCHANGED <<receivers, recvMap, pendRecv, pendDec, nextKey, calls>>

C12_InFlightSurvives ==
    (DecryptSettled /\ last.recv # 0 /\ last.hadKey /\ last.sawRetire /\ InsideWindow)
        => /\ last.outcome = "ok"
           /\ last.plain = Bytes(last.desc.payload)
           /\ SameMaterial(last.tried[Len(last.tried)], last.desc)

\* C12 witness: the key that decrypted the frame has left the keyring meanwhile
C12_Witness ==
    /\ DecryptSettled
    /\ last.outcome = "ok"
    /\ last.sawRetire
    /\ ~InKeyring(receivers[last.recv], last.tried[Len(last.tried)].id)

\* C13: the keys a decrypt call has attempted are the first keys of the
\* keyring as it was when the call took its snapshot, in that order, and a call
\* that ends in DecryptionFailure has attempted exactly those keys.
C13_StableSnapshot ==
    (last.op = "decrypt" /\ last.recv # 0)
        => /\ Len(last.tried) <= Len(last.ring)
           /\ last.tried = SubSeq(last.ring, 1, Len(last.tried))
           /\ last.outcome = "DecryptionFailure" => last.tried = last.ring

\* C19: the keys attempted so far are in installation order starting with the
\* oldest key of the snapshot, every attempt but the last one failed, the call
\* succeeds exactly when the last attempt was made with a key of the frame's
\* raw key, returning that key's plaintext, and it ends in DecryptionFailure
\* exactly when it has settled without such a key (at once when the keyring is
\* empty, after the whole snapshot when it was copied).
C19_KeyOrder ==
    (last.op = "decrypt" /\ last.recv # 0 /\ last.outcome # "ReplayAttackError")
        => LET r == receivers[last.recv]
               n == Len(last.tried)
           IN  /\ \A a, b \in 1..n :
                     a < b => Place(r, last.tried[a].id) < Place(r, last.tried[b].id)
               /\ n > 0 /\ last.ring # << >> => last.tried[1] = last.ring[1]
               /\ \A a \in 1..n :
                     SameMaterial(last.tried[a], last.desc)
                         => a = n /\ last.outcome = "ok"
               /\ last.outcome = "ok"
                     => /\ n > 0
                        /\ SameMaterial(last.tried[n], last.desc)
                        /\ last.plain = Bytes(last.desc.payload)
               /\ last.outcome \in {"pending", "ok", "DecryptionFailure"}
               /\ last.outcome = "DecryptionFailure"
                     => /\ Len(last.ring) > 1 => last.tried = last.ring
                        /\ last.ring = << >> => n = 0
               /\ last.outcome = "pending" => last.ring # << >>

\* C19 witness: the oldest key failed and the second key decrypted the frame
C19_Witness ==
    /\ DecryptSettled
    /\ last.outcome = "ok"
    /\ Len(last.tried) = 2
    /\ Len(last.ring) = 3

\* maxReceivedCounter is -1 while nothing has been decrypted and the largest
\* header counter of the frames decrypted successfully afterwards
C14_LargestAccepted ==
    \A n \in 1..Len(receivers) :
        LET r == receivers[n]
            m == r.maxReceivedCounter
        IN  IF r.accepted = {} THEN m = MinusOne
            ELSE /\ \E d \in r.accepted : FrameHeader(d).counter = m
                 /\ \A d \in r.accepted : ~NumLT(m, FrameHeader(d).counter)

\* a step changes maxReceivedCounter only when it is the successful end of a
\* decrypt of that Receiver, and then to the larger of the old value and the
\* frame's counter; no step lowers it
C14_ChangesOnSuccessOnly ==
    /\ \A n \in 1..Len(receivers) :
          LET old == receivers[n].maxReceivedCounter
              new == receivers'[n].maxReceivedCounter
          IN  /\ ~NumLT(new, old)
              /\ new # old => /\ last'.op = "decrypt"
                              /\ last'.outcome = "ok"
                              /\ last'.recv = n
    /\ (last'.op = "decrypt" /\ last'.outcome = "ok" /\ pendDec' # pendDec)
          => receivers'[last'.recv].maxReceivedCounter =
                 NumMax(receivers[last'.recv].maxReceivedCounter, last'.counter)

\* C14: maxReceivedCounter starts at -1, changes only on a successful decrypt,
\* to the maximum of its old value and the frame's counter, never decreases and
\* is the largest counter among the successful decrypts.
C14_MaxReceivedCounter == [](C14_LargestAccepted) /\ [][C14_ChangesOnSuccessOnly]_vars

\* C14 witness: of three decrypt calls two frames have been accepted, the last
\* one with a counter below maxReceivedCounter, which it left as it was
C14_Witness ==
    /\ DecryptSettled
    /\ last.outcome = "ok"
    /\ ToInt(last.counter) < ToInt(receivers[last.recv].maxReceivedCounter)
    /\ ToInt(last.maxAtCall) = ToInt(receivers[last.recv].maxReceivedCounter)
    /\ Cardinality(receivers[last.recv].accepted) = 2
    /\ calls.decrypt = 3

(***************************************************************************)
(* SpecIsolation: a Context with Receivers for the key ids 1 and 2, each   *)
(* given keys of either raw key, is handed frames of two remote Senders    *)
(* (ids 1 and 2) under either raw key, one decrypt call at a time, while   *)
(* keys are installed one after the other and a Receiver may be deleted.   *)
(***************************************************************************)
IsMaxSetReceiver == 2
IsMaxDecrypt == 1
IsMaxDelete == 1

IsSetReceiverEncryptionKey ==
    \E id \in KeyIds, rawKey \in RawKeys :
        /\ calls.setReceiver < IsMaxSetReceiver
        /\ pendRecv = {}
        /\ SetReceiverEncryptionKeyCall(id, rawKey)

IsDeleteReceiver ==
    \E id \in KeyIds :
        /\ calls.delete < IsMaxDelete
        /\ DeleteReceiver(id)

IsDecrypt ==
    \E id \in KeyIds, rawKey \in RawKeys :
        /\ calls.decrypt < IsMaxDecrypt
        /\ pendDec = {}
        /\ DecryptCall(PeerFrame(id, N(0), rawKey, <<202>>, 0))

NextIsolation ==
    \/ IsSetReceiverEncryptionKey
    \/ SetReceiverEncryptionKeyResume
    \/ IsDeleteReceiver
    \/ IsDecrypt
    \/ DecryptResume

SpecIsolation == Init /\ [][NextIsolation]_vars

\* the Receiver n holds a key of the raw key of the frame desc
HoldsNow(n, desc) == HoldsKeyFor(receivers[n].keyring, desc)

\* C15: a decrypt of a frame whose header carries key id k runs on a Receiver
\* created for k and attempts only keys that were installed on that Receiver;
\* it succeeds only with a key of the frame's raw key, and it fails with
\* DecryptionFailure when that Receiver held no such key at the call and got
\* none while the call was pending, whatever the other Receivers hold.
C15_CrossKeyIsolation ==
    (last.op = "decrypt" /\ last.recv # 0)
        => LET r == receivers[last.recv]
           IN  /\ r.keyId = FrameHeader(last.desc).keyId
               /\ \A a \in 1..Len(last.tried) :
                     /\ Place(r, last.tried[a].id) > 0
                     /\ \A n \in 1..Len(receivers) :
                           n # last.recv
                               => \A p \in 1..Len(receivers[n].installed) :
                                      receivers[n].installed[p].id # last.tried[a].id
               /\ last.outcome = "ok"
                     => /\ SameMaterial(last.tried[Len(last.tried)], last.desc)
                        /\ last.plain = Bytes(last.desc.payload)
               /\ (last.outcome # "pending" /\ last.hadKey) => last.outcome = "ok"
               /\ (last.outcome # "pending" /\ ~last.hadKey /\ ~last.sawInstall)
                     => last.outcome = "DecryptionFailure"

\* C15 witness: the bindings are swapped: the Receivers of key ids 1 and 2 are
\* both registered, the frame of one Sender has just failed on its own
\* Receiver, which holds a key, while the other Receiver holds the frame's key
C15_Witness ==
    /\ DecryptSettled
    /\ last.outcome = "DecryptionFailure"
    /\ Len(last.tried) > 0
    /\ Has(N(1))
    /\ Has(N(2))
    /\ \E n \in 1..Len(receivers) :
          /\ n # last.recv
          /\ HoldsNow(n, last.desc)
          /\ \E m \in recvMap : m.recv = n

\* a decrypt call ends in InvalidKey exactly when no Receiver was registered
\* under the key id of the frame's header
C16_InvalidKeyIffMissing ==
    (calls'.decrypt # calls.decrypt)
        => /\ last'.op = "decrypt"
           /\ (last'.outcome = "InvalidKey")
                  <=> ~\E m \in recvMap : m.keyId = FrameHeader(last'.desc).keyId

\* the step that ends in InvalidKey changes nothing in the Context
C16_ChangesNothing ==
    (last'.op = "decrypt" /\ last'.outcome = "InvalidKey")
        => UNCHANGED <<sender, receivers, recvMap, timers, pendSender, pendRecv,
                       pendDec, emitted, nextKey>>

\* C16: decrypt of a frame whose header key id has no Receiver fails with
\* InvalidKey and leaves the Context as it was.
C16_MissingReceiver == [][C16_InvalidKeyIffMissing /\ C16_ChangesNothing]_vars

\* C16 witness: InvalidKey for the key id of a Receiver that has been deleted,
\* while the other key id has a Receiver with a key of the frame's raw key
C16_Witness ==
    /\ last.op = "decrypt"
    /\ last.outcome = "InvalidKey"
    /\ calls.delete = 1
    /\ \E n \in 1..Len(receivers) :
          /\ receivers[n].keyId = FrameHeader(last.desc).keyId
          /\ HoldsNow(n, last.desc)
    /\ \E m \in recvMap : HoldsNow(m.recv, last.desc)

\* C17: an encrypt call made while no sender key is installed, whether the
\* Context has no Sender yet or its Sender has no key yet, fails with InvalidKey.
C17_NoSenderKey ==
    (last.op = "encrypt" /\ last.outcome \notin {"pending", "ok"})
        => last.outcome = "InvalidKey"

\* C18: a decrypt all of whose attempts failed on the comparison of the tag
\* with the HMAC gets an error of type AuthenticationError from each
\* SFrameCrypto.decrypt, and the Context's decrypt fails with
\* AuthenticationError.
C18_TagMismatch ==
    (/\ DecryptSettled
     /\ last.errs # << >>
     /\ Len(last.errs) = Len(last.tried)
     /\ \A a \in 1..Len(last.errs) : last.errs[a].message = "Authentication error")
        => /\ \A a \in 1..Len(last.errs) : last.errs[a].name = "AuthenticationError"
           /\ last.outcome = "AuthenticationError"

\* C20: canEncrypt() is false before setSenderEncryptionKey is called and true
\* once it has resolved, canDecrypt(k) is false before
\* setReceiverEncryptionKey(k, ...) is called and true once it has resolved,
\* and canEncrypt() is never true while the Sender holds no key, nor
\* canDecrypt(k) while the keyring of the Receiver of k is empty.
C20_CanImpliesKey ==
    /\ calls.setSender = 0 => ~canEncrypt
    /\ (calls.setSender > 0 /\ pendSender = {}) => canEncrypt
    /\ \A k \in KeyIds :
          /\ calls.setReceiver = 0 => ~canDecrypt(k)
          /\ (\E n \in 1..Len(receivers) :
                 receivers[n].keyId = k /\ receivers[n].keyring # << >>)
                => canDecrypt(k)
    /\ canEncrypt => sender.key # NoKey
    /\ \A k \in KeyIds : canDecrypt(k) => receivers[Get(k)].keyring # << >>

\* a deleteReceiver(k) step returns whether k was registered, removes that
\* entry of the map and nothing else, and leaves the Sender, every Receiver
\* object, the timers and the pending calls as they were
C21_DeleteStep ==
    (calls'.delete # calls.delete)
        => LET k == last'.keyId
           IN  /\ last'.op = "delete"
               /\ last'.flag <=> canDecrypt(k)
               /\ recvMap' = {m \in recvMap : m.keyId # k}
               /\ UNCHANGED <<sender, receivers, timers, pendSender, pendRecv,
                              pendDec, emitted, nextKey>>

\* a decrypt called right after deleteReceiver(k) for a frame of key id k
\* fails with InvalidKey
C21_DecryptAfterDelete ==
    (/\ last.op = "delete"
     /\ calls'.decrypt # calls.decrypt
     /\ FrameHeader(last'.desc).keyId = last.keyId)
        => last'.outcome = "InvalidKey"

\* after deleteReceiver(k) has returned, canDecrypt(k) is false
C21_CannotDecrypt == last.op = "delete" => ~canDecrypt(last.keyId)

\* C21: deleteReceiver(k) returns true exactly when a Receiver was registered
\* under k; afterwards canDecrypt(k) is false and decrypt of a frame with key id
\* k fails with InvalidKey, while the Sender and the other Receivers are
\* unchanged.
C21_DeleteReceiver ==
    [](C21_CannotDecrypt) /\ [][C21_DeleteStep /\ C21_DecryptAfterDelete]_vars

\* C21 witness: a frame of the key id just deleted fails with InvalidKey while
\* the deleted Receiver object holds its key and the other key id is still
\* registered
C21_Witness ==
    /\ last.op = "decrypt"
    /\ last.outcome = "InvalidKey"
    /\ calls.delete = 1
    /\ recvMap # {}
    /\ \E n \in 1..Len(receivers) :
          /\ receivers[n].keyId = FrameHeader(last.desc).keyId
          /\ HoldsNow(n, last.desc)

(***************************************************************************)
(* SpecKeyId: a Context is given sender and receiver keys under ids at and *)
(* beyond both ends of the allowed range, between encrypts, and            *)
(* generateSFrameHeader is called with the same ids.                       *)
(***************************************************************************)
KiMaxSetSender == 2
KiMaxSetReceiver == 2
KiMaxEncrypt == 1

KiIds == {N(-1), N(0), SFRAME_HEADER_MAXKEYID, TwoPow53}

KiSetSenderEncryptionKey ==
    \E id \in KiIds :
        /\ calls.setSender < KiMaxSetSender
        /\ pendSender = {}
        /\ SetSenderEncryptionKeyCall(id, 1)

KiSetReceiverEncryptionKey ==
    \E id \in KiIds :
        /\ calls.setReceiver < KiMaxSetReceiver
        /\ pendRecv = {}
        /\ SetReceiverEncryptionKeyCall(id, 1)

KiEncrypt ==
    /\ calls.encrypt < KiMaxEncrypt
    /\ Idle
    /\ EncryptCall(<<202>>, 0)

KiGenerate == \E id \in KiIds : GenerateHeader(id, N(0))

NextKeyId ==
    \/ KiSetSenderEncryptionKey
    \/ SetSenderEncryptionKeyResume
    \/ KiSetReceiverEncryptionKey
    \/ SetReceiverEncryptionKeyResume
    \/ KiEncrypt
    \/ EncryptResume
    \/ KiGenerate

SpecKeyId == Init /\ [][NextKeyId]_vars

\* the step is a call that takes a key id
TakesKeyId ==
    \/ calls'.setSender # calls.setSender
    \/ calls'.setReceiver # calls.setReceiver
    \/ last'.op = "generate" /\ last' # last

\* a call is rejected with InvalidHeaderKey exactly when its id is below 0 or
\* above SFRAME_HEADER_MAXKEYID, and the rejected call changes nothing
C22_RejectStep ==
    TakesKeyId
        => LET k == last'.keyId
               outside == k[1] < 0 \/ NumLT(SFRAME_HEADER_MAXKEYID, k)
           IN  /\ (last'.outcome = "InvalidHeaderKey") <=> outside
               /\ outside => UNCHANGED <<sender, receivers, recvMap, timers,
                                         pendSender, pendRecv, pendDec, emitted,
                                         nextKey>>

\* no Sender and no Receiver ever carries an id outside the range
C22_IdsInRange ==
    /\ sender.exists => /\ sender.senderId[1] >= 0
                        /\ ~NumLT(SFRAME_HEADER_MAXKEYID, sender.senderId)
    /\ \A m \in recvMap : /\ m.keyId[1] >= 0
                          /\ ~NumLT(SFRAME_HEADER_MAXKEYID, m.keyId)

\* C22: an id outside 0..SFRAME_HEADER_MAXKEYID is rejected with
\* InvalidHeaderKey by generateSFrameHeader, setSenderEncryptionKey and
\* setReceiverEncryptionKey, and the rejection leaves the Context unchanged.
C22_InvalidHeaderKey == [](C22_IdsInRange) /\ [][C22_RejectStep]_vars

\* C22 witness: a Sender with the largest id, a key and one frame sent rejects
\* a new id, while a Receiver is registered
C22_Witness ==
    /\ last.op = "setSender"
    /\ last.outcome = "InvalidHeaderKey"
    /\ sender.senderId = SFRAME_HEADER_MAXKEYID
    /\ sender.key # NoKey
    /\ sender.counter = N(1)
    /\ recvMap # {}

(***************************************************************************)
(* SpecHeader: generateSFrameHeader is applied to a key id and a counter   *)
(* taken at the values where a byte length changes, and parseSFrameHeader  *)
(* to the generated bytes followed by payload bytes.                       *)
(***************************************************************************)
\* 256^k - 1 and 256^k for k = 1..6, and their neighbours
HdBoundaries ==
    {N(0), N(1), N(7), N(8), N(255), N(256), N(65535), N(65536),
     <<0, LimbBase - 1>>, <<1, 0>>, <<255, LimbBase - 1>>, <<256, 0>>,
     <<65535, LimbBase - 1>>, <<65536, 0>>,
     <<LimbBase - 1, LimbBase - 2>>, <<LimbBase - 1, LimbBase - 1>>, <<LimbBase, 0>>}

\* the values of the 'generate' test
HdTestValues == {N(12307677), <<187, 13426158>>}

HdKeyIds == HdBoundaries \cup HdTestValues \cup {SFRAME_HEADER_MAXKEYID}

HdCounters == HdBoundaries \cup {SFRAME_HEADER_MAXKEYID, TwoPow53}

HdTails == {<< >>, <<202>>, <<255, 255>>}

NoHeader == [error |-> "", data |-> << >>, keyId |-> N(0), counter |-> N(0),
             rawCounter |-> << >>]

InitHeader ==
    /\ sender = [exists |-> FALSE, senderId |-> N(0), counter |-> N(0), key |-> NoKey]
    /\ receivers = << >>
    /\ recvMap = {}
    /\ timers = << >>
    /\ pendSender = {}
    /\ pendRecv = {}
    /\ pendDec = {}
    /\ emitted = << >>
    /\ nextKey = 1
    /\ calls = [setSender |-> 0, encrypt |-> 0, setReceiver |-> 0, decrypt |-> 0,
                delete |-> 0]
    /\ \E keyId \in HdKeyIds, counter \in HdCounters, tail \in HdTails :
          last = [op |-> "none", keyId |-> keyId, counter |-> counter, tail |-> tail,
                  generated |-> NoHeader, parsed |-> NoHeader]

HdGenerate ==
    /\ last.op = "none"
    /\ last' = [last EXCEPT !.op = "generate",
                            !.generated = generateSFrameHeader(last.keyId, last.counter)]
    /\ UNCHANGED <<sender, receivers, recvMap, timers, pendSender, pendRecv, pendDec,
                   emitted, nextKey, calls>>

HdParse ==
    /\ last.op = "generate"
    /\ last.generated.error = ""
    /\ last' = [last EXCEPT !.op = "parse",
                            !.parsed = parseSFrameHeader(last.generated.data \o last.tail)]
    /\ UNCHANGED <<sender, receivers, recvMap, timers, pendSender, pendRecv, pendDec,
                   emitted, nextKey, calls>>

NextHeader ==
    \/ HdGenerate
    \/ HdParse

SpecHeader == InitHeader /\ [][NextHeader]_vars

\* C23: parsing the generated header followed by any payload bytes gives back
\* the key id and the counter, the generated rawCounter, and as data exactly
\* the generated bytes: one byte, the key id bytes when the X bit is set, and
\* the counter bytes.
C23_HeaderRoundTrip ==
    last.op = "parse"
        => LET g == last.generated
               p == last.parsed
               metadata == g.data[1]
               x == (metadata \div 8) % 2
               consumed == 1 + (IF x = 1 THEN (metadata % 8) + 1 ELSE 0)
                             + ((metadata \div 16) % 8) + 1
           IN  /\ p.keyId = last.keyId
               /\ p.counter = last.counter
               /\ p.rawCounter = g.rawCounter
               /\ p.data = g.data
               /\ Len(p.data) = consumed
               /\ x = 1 <=> NumLT(N(7), last.keyId)

\* C23 witness: the largest key id and the counter 2^48 - 1, followed by two
\* payload bytes
C23_Witness ==
    /\ last.op = "parse"
    /\ last.keyId = SFRAME_HEADER_MAXKEYID
    /\ last.counter = <<LimbBase - 1, LimbBase - 1>>
    /\ Len(last.tail) = 2

\* the least number of bytes (1..8) that hold x
ByteLen(x) ==
    CHOOSE n \in 1..8 : /\ \A j \in n..7 : NumByte(x, j) = 0
                        /\ n = 1 \/ NumByte(x, n - 1) # 0

\* x as n bytes, most significant first
BigEndian(x, n) == [j \in 1..n |-> NumByte(x, n - j)]

\* C24: the first byte has reserved bit 0, LEN = byte length of the counter - 1
\* in bits 4..6, X = 1 exactly when keyId > 7 and K = keyId (X = 0) or byte
\* length of the key id - 1 (X = 1); the key id (when extended) and the counter
\* follow big-endian in their minimal byte length, 0 taking one byte;
\* generate(0xbbccdd, 0xff) = 0abbccddff and
\* generate(0xbbccddee, 0x100) = 1bbbccddee0100.
C24_HeaderLayout ==
    last.op = "generate"
        => LET g == last.generated
               metadata == g.data[1]
               extended == NumLT(N(7), last.keyId)
               k == IF extended THEN ByteLen(last.keyId) - 1 ELSE last.keyId[2]
               len == ByteLen(last.counter) - 1
           IN  /\ g.error = ""
               /\ metadata = len * 16 + (IF extended THEN 8 ELSE 0) + k
               /\ g.data = <<metadata>>
                             \o (IF extended THEN BigEndian(last.keyId, k + 1) ELSE << >>)
                             \o BigEndian(last.counter, len + 1)
               /\ g.rawCounter = BigEndian(last.counter, len + 1)
               /\ (last.keyId = N(12307677) /\ last.counter = N(255))
                     => g.data = <<10, 187, 204, 221, 255>>
               /\ (last.keyId = <<187, 13426158>> /\ last.counter = N(256))
                     => g.data = <<27, 187, 204, 221, 238, 1, 0>>

(***************************************************************************)
(* SpecIV: generateIV is applied to raw counters of 1 to 8 bytes and to    *)
(* 12-byte salts: those of the repository's IV test, all zeros, all ones.  *)
(***************************************************************************)
\* the salt of the first cipher suite in the IV test
IvTestSalt == <<66, 214, 98, 251, 173, 92, 216, 30, 179, 170, 215, 154>>

IvSalts ==
    {IvTestSalt,
     <<119, 251, 245, 241, 216, 44, 115, 246, 210, 179, 83, 201>>,
     <<168, 4, 120, 179, 246, 251, 161, 153, 131, 213, 64, 213>>,
     <<49, 237, 38, 249, 10, 7, 46, 106, 238, 100, 98, 152>>,
     <<0, 0, 0, 0, 0, 0, 0, 0, 0, 0, 0, 0>>,
     <<255, 255, 255, 255, 255, 255, 255, 255, 255, 255, 255, 255>>}

IvCounters ==
    {[j \in 1..n |-> b] : n \in 1..8, b \in {0, 1, 170, 255}}
    \cup {<<1, 2, 3, 4, 5, 6, 7, 8>>, <<128, 0>>}

InitIV ==
    /\ sender = [exists |-> FALSE, senderId |-> N(0), counter |-> N(0), key |-> NoKey]
    /\ receivers = << >>
    /\ recvMap = {}
    /\ timers = << >>
    /\ pendSender = {}
    /\ pendRecv = {}
    /\ pendDec = {}
    /\ emitted = << >>
    /\ nextKey = 1
    /\ calls = [setSender |-> 0, encrypt |-> 0, setReceiver |-> 0, decrypt |-> 0,
                delete |-> 0]
    /\ \E counter \in IvCounters, salt \in IvSalts :
          last = [op |-> "none", counter |-> counter, salt |-> salt, iv |-> << >>]

IvGenerate ==
    /\ last.op = "none"
    /\ last' = [last EXCEPT !.op = "iv", !.iv = generateIV(last.counter, last.salt)]
    /\ UNCHANGED <<sender, receivers, recvMap, timers, pendSender, pendRecv, pendDec,
                   emitted, nextKey, calls>>

NextIV == IvGenerate

SpecIV == InitIV /\ [][NextIV]_vars

\* bit b (0 = least significant) of the byte v
Bit(v, b) == (v \div (2 ^ b)) % 2

\* C25: the IV has the salt's 12 bytes; each of its bits is the salt's bit
\* XOR the bit of the counter right-aligned and zero-padded to 12 bytes, so the
\* leading 12 - len(counter) bytes are the salt's; salt
\* 42d662fbad5cd81eb3aad79a gives 42d662fbad5cd81eb3aad730 with counter aa and
\* 42d662fbada327e14c552865 with counter ffffffffffffff.
C25_IVConstruction ==
    last.op = "iv"
        => LET n == Len(last.counter)
               padded == [j \in 1..12 |-> IF j > 12 - n THEN last.counter[j - (12 - n)]
                                          ELSE 0]
           IN  /\ Len(last.iv) = 12
               /\ \A j \in 1..12 : \A b \in 0..7 :
                     Bit(last.iv[j], b) = (Bit(last.salt[j], b) + Bit(padded[j], b)) % 2
               /\ \A j \in 1..(12 - n) : last.iv[j] = last.salt[j]
               /\ (last.salt = IvTestSalt /\ last.counter = <<170>>)
                     => last.iv = <<66, 214, 98, 251, 173, 92, 216, 30, 179, 170, 215, 48>>
               /\ (last.salt = IvTestSalt
                   /\ last.counter = <<255, 255, 255, 255, 255, 255, 255>>)
                     => last.iv = <<66, 214, 98, 251, 173, 163, 39, 225, 76, 85, 40, 101>>

\* C25 witness: the 7-byte counter of the test with the first salt
C25_Witness ==
    /\ last.op = "iv"
    /\ last.salt = IvTestSalt
    /\ last.counter = <<255, 255, 255, 255, 255, 255, 255>>
    /\ last.iv[12] = 101

(***************************************************************************)
(* The IV of a frame                                                       *)
(***************************************************************************)
\* the iv SFrameCrypto.encrypt handed to crypto.subtle.encrypt for a frame: the
\* one its AES-GCM output bytes were produced under
IVOf(frame) ==
    frame[CHOOSE j \in 1..Len(frame) : frame[j].t \in {"ct", "gcm"}].iv

\* C26: the frames one Sender emits under one key all have different IVs, so
\* that no IV is used twice under a key over any sequence of encrypts.
C26_NoIVTwice ==
    \A j, h \in 1..Len(emitted) :
        (j < h /\ SameMaterial(emitted[j], Desc(emitted[h])))
            => IVOf(FrameOf(Desc(emitted[j]))) # IVOf(FrameOf(Desc(emitted[h])))

(***************************************************************************)
(* Two participants that send under the same key                           *)
(***************************************************************************)
TwMaxEncrypt == 2

TwIds == KeyIds \cup {N(0)}

\* Two Contexts after setSenderEncryptionKey(a, rawKey) on the first and
\* setSenderEncryptionKey(b, rawKey) on the second: last.senders holds their
\* Senders, emitted the frames of both in call order.
InitTwoSenders ==
    /\ \E a, b \in TwIds : \E rawKey \in RawKeys :
          /\ a # b
          /\ last = [op |-> "none",
                     senders |-> <<SenderSetEncryptionKey(NewSender(a),
                                                          createSFrameCrypto(1, rawKey)),
                                   SenderSetEncryptionKey(NewSender(b),
                                                          createSFrameCrypto(2, rawKey))>>]
    /\ sender = [exists |-> FALSE, senderId |-> N(0), counter |-> N(0), key |-> NoKey]
    /\ receivers = << >>
    /\ recvMap = {}
    /\ timers = << >>
    /\ pendSender = {}
    /\ pendRecv = {}
    /\ pendDec = {}
    /\ emitted = << >>
    /\ nextKey = 3
    /\ calls = [setSender |-> 2, encrypt |-> 0, setReceiver |-> 0, decrypt |-> 0,
                delete |-> 0]

\* Sender.encrypt of the w-th participant, with the frame it resolves to
TwEncrypt(w, payload, skip) ==
    LET s == last.senders[w]
    IN  /\ Len(SelectSeq(emitted, LAMBDA e : e.key = s.key.id)) < TwMaxEncrypt
        /\ last' = [last EXCEPT !.op = "encrypt", !.senders[w] = SenderAllocCounter(s)]
        /\ emitted' = Append(emitted,
               [senderId |-> s.senderId, counter |-> s.counter,
                key |-> s.key.id, raw |-> s.key.raw, variant |-> s.key.variant,
                payload |-> payload, skip |-> skip, done |-> TRUE])
        /\ calls' = [calls EXCEPT !.encrypt = @ + 1]
        /\ UNCHANGED <<sender, receivers, recvMap, timers, pendSender, pendRecv,
                       pendDec, nextKey>>

NextTwoSenders ==
    \E w \in 1..2 : \E payload \in Payloads : \E skip \in Skips(payload) :
        TwEncrypt(w, payload, skip)

SpecTwoSenders == InitTwoSenders /\ [][NextTwoSenders]_vars

\* C27: the IV contains the key id as well as the counter: two frames that
\* senders with different ids encrypt under the same key with the same counter
\* are encrypted with different IVs.
C27_IVContainsKeyId ==
    \A j, h \in 1..Len(emitted) :
        (/\ emitted[j].senderId # emitted[h].senderId
         /\ SameMaterial(emitted[j], Desc(emitted[h]))
         /\ emitted[j].counter = emitted[h].counter)
            => IVOf(FrameOf(Desc(emitted[j]))) # IVOf(FrameOf(Desc(emitted[h])))

(***************************************************************************)
(* Sender.encrypt as a function of the Sender's fields and its arguments   *)
(***************************************************************************)
FrVariants == {AES_CM_128_HMAC_SHA256_8, AES_CM_128_HMAC_SHA256_4,
               AES_GCM_128_SHA256, AES_GCM_256_SHA512}

\* a Sender's id, counter and key, and the arguments of one encrypt call
FrInputs ==
    {[senderId |-> id, counter |-> c, raw |-> rawKey, variant |-> v,
      payload |-> payload, skip |-> skip] :
        id \in {N(1), N(256)}, c \in {N(0), N(256)}, rawKey \in RawKeys,
        v \in FrVariants, payload \in Payloads, skip \in 0..MaxPayloadLen}

InitFrame ==
    /\ \E desc \in FrInputs :
          /\ desc.skip <= Len(desc.payload)
          /\ last = [op |-> "none", outcome |-> "", desc |-> desc, frame |-> << >>]
    /\ sender = [exists |-> FALSE, senderId |-> N(0), counter |-> N(0), key |-> NoKey]
    /\ receivers = << >>
    /\ recvMap = {}
    /\ timers = << >>
    /\ pendSender = {}
    /\ pendRecv = {}
    /\ pendDec = {}
    /\ emitted = << >>
    /\ nextKey = 1
    /\ calls = [setSender |-> 0, encrypt |-> 0, setReceiver |-> 0, decrypt |-> 0,
                delete |-> 0]

\* Sender.encrypt: the frame it returns, or the rejection of
\* crypto.subtle.encrypt passed on
FrEncrypt ==
    /\ last.op = "none"
    /\ LET desc == last.desc
           key == createCipherSuite(0, desc.variant, desc.raw)
           header == generateSFrameHeader(desc.senderId, desc.counter)
       IN  IF SFrameCryptoEncrypt(key, header, desc.payload, desc.skip).ok
           THEN last' = [last EXCEPT !.op = "encrypt", !.outcome = "ok",
                                     !.frame = DescFrame(desc)]
           ELSE last' = [last EXCEPT !.op = "encrypt", !.outcome = "rejected"]
    /\ UNCHANGED <<sender, receivers, recvMap, timers, pendSender, pendRecv, pendDec,
                   emitted, nextKey, calls>>

NextFrame == FrEncrypt

SpecFrame == InitFrame /\ [][NextFrame]_vars

\* the header of the frame of a descriptor
DescHeader(desc) == generateSFrameHeader(desc.senderId, desc.counter)

\* the bytes of a frame between its header and its HMAC tag
CipherPortion(desc, frame) ==
    Subarray(frame, desc.skip + Len(DescHeader(desc).data),
             Len(frame) - getCipherSuiteConfig(desc.variant).nT)

\* the frame starts with the first skip bytes of the payload, then the header,
\* and ends with the first nT bytes of the HMAC over header and cipher portion
ClearHeaderAndTag(desc, frame) ==
    LET hlen == Len(DescHeader(desc).data)
        nT == getCipherSuiteConfig(desc.variant).nT
    IN  /\ Len(frame) >= desc.skip + hlen + nT
        /\ Subarray(frame, 0, desc.skip) = Bytes(Subarray(desc.payload, 0, desc.skip))
        /\ Vals(Subarray(frame, desc.skip, desc.skip + hlen)) = DescHeader(desc).data
        /\ Subarray(frame, Len(frame) - nT, Len(frame))
             = Subarray(SubtleSign(KeyMaterial(desc.raw, desc.variant),
                                   Subarray(frame, desc.skip, Len(frame) - nT)), 0, nT)

SamePastSkip(payload, skip) ==
    {p \in [1..Len(payload) -> {202, 254, 17}] :
        \A j \in (skip + 1)..Len(payload) : p[j] = payload[j]}

\* C29: the bytes between header and tag of the frame of encrypt(P, s) depend
\* only on P[s..): a payload that differs from P only inside the first s bytes
\* gives the same bytes under the same key, sender id and counter.
C29_SkipExcluded ==
    (last.op = "encrypt" /\ last.outcome = "ok")
        => \A p \in SamePastSkip(last.desc.payload, last.desc.skip) :
              CipherPortion(last.desc, DescFrame([last.desc EXCEPT !.payload = p]))
                  = CipherPortion(last.desc, last.frame)

(***************************************************************************)
(* CipherSuite.ts: the key schedule                                        *)
(***************************************************************************)
\* the raw key materials of the key derivation tests, and three more
KsKeyMaterials ==
    {<<16, 17, 18, 19, 20, 21, 22, 23, 24, 25, 26, 27, 28, 29, 30, 31>>,
     <<32, 33, 34, 35, 36, 37, 38, 39, 40, 41, 42, 43, 44, 45, 46, 47>>,
     <<48, 49, 50, 51, 52, 53, 54, 55, 56, 57, 58, 59, 60, 61, 62, 63>>,
     <<64, 65, 66, 67, 68, 69, 70, 71, 72, 73, 74, 75, 76, 77, 78, 79, 80, 81, 82,
     83, 84, 85, 86, 87, 88, 89, 90, 91, 92, 93, 94, 95>>,
     <<0, 1, 2, 3, 4, 5, 6, 7, 8, 9, 10, 11, 12, 13, 14, 15>>,
     <<0>>,
     <<255, 255, 255, 255, 255, 255, 255, 255, 255, 255, 255, 255, 255, 255, 255,
     255>>}

\* HKDF (RFC 5869) with salt "SFrame10" as crypto.subtle.deriveBits computes it:
\* the first 32 bytes of the output keying material for a hash, an input key
\* and an info string.  Shorter outputs are prefixes of longer ones.
HkdfOkm(hashAlgorithm, keyMaterial, info) ==
    CASE hashAlgorithm = "SHA-256" /\ info = "key"
           /\ keyMaterial = <<16, 17, 18, 19, 20, 21, 22, 23, 24, 25, 26, 27, 28, 29,
                           30, 31>> ->
              <<52, 61, 50, 144, 245, 192, 185, 54, 65, 91, 234, 154, 67, 198, 245,
              162, 139, 186, 61, 143, 125, 51, 43, 49, 63, 26, 128, 8, 163, 168, 242,
              164>>
      [] hashAlgorithm = "SHA-256" /\ info = "salt"
           /\ keyMaterial = <<16, 17, 18, 19, 20, 21, 22, 23, 24, 25, 26, 27, 28, 29,
                           30, 31>> ->
              <<66, 214, 98, 251, 173, 92, 216, 30, 179, 170, 215, 154, 236, 118, 16,
              48, 88, 209, 63, 238, 144, 202, 128, 14, 31, 22, 183, 126, 100, 182,
              19, 88>>
      [] hashAlgorithm = "SHA-256" /\ info = "key"
           /\ keyMaterial = <<32, 33, 34, 35, 36, 37, 38, 39, 40, 41, 42, 43, 44, 45,
                           46, 47>> ->
              <<63, 206, 116, 125, 80, 94, 70, 236, 155, 146, 217, 245, 142, 231,
              165, 212, 196, 181, 26, 92, 229, 130, 90, 27, 124, 74, 239, 93, 246,
              114, 115, 142>>
      [] hashAlgorithm = "SHA-256" /\ info = "salt"
           /\ keyMaterial = <<32, 33, 34, 35, 36, 37, 38, 39, 40, 41, 42, 43, 44, 45,
                           46, 47>> ->
              <<119, 251, 245, 241, 216, 44, 115, 246, 210, 179, 83, 201, 254, 78,
              154, 65, 88, 53, 146, 109, 222, 18, 146, 173, 97, 59, 230, 89, 60, 11,
              149, 15>>
      [] hashAlgorithm = "SHA-256" /\ info = "key"
           /\ keyMaterial = <<48, 49, 50, 51, 52, 53, 54, 55, 56, 57, 58, 59, 60, 61,
                           62, 63>> ->
              <<46, 162, 232, 22, 63, 245, 108, 6, 19, 230, 250, 159, 32, 162, 19,
              218, 254, 66, 15, 31, 50, 90, 120, 91, 132, 173, 162, 135, 172, 23,
              134, 209>>
      [] hashAlgorithm = "SHA-256" /\ info = "salt"
           /\ keyMaterial = <<48, 49, 50, 51, 52, 53, 54, 55, 56, 57, 58, 59, 60, 61,
                           62, 63>> ->
              <<168, 4, 120, 179, 246, 251, 161, 153, 131, 213, 64, 213, 9, 131, 165,
              97, 5, 84, 193, 1, 206, 189, 144, 191, 41, 98, 15, 172, 109, 25, 232,
              41>>
      [] hashAlgorithm = "SHA-256" /\ info = "key"
           /\ keyMaterial = <<64, 65, 66, 67, 68, 69, 70, 71, 72, 73, 74, 75, 76, 77,
                           78, 79, 80, 81, 82, 83, 84, 85, 86, 87, 88, 89, 90, 91,
                           92, 93, 94, 95>> ->
              <<86, 45, 227, 41, 79, 13, 110, 144, 249, 231, 227, 255, 130, 240, 0,
              106, 72, 222, 225, 213, 101, 79, 112, 150, 18, 49, 77, 33, 148, 30,
              222, 240>>
      [] hashAlgorithm = "SHA-256" /\ info = "salt"
           /\ keyMaterial = <<64, 65, 66, 67, 68, 69, 70, 71, 72, 73, 74, 75, 76, 77,
                           78, 79, 80, 81, 82, 83, 84, 85, 86, 87, 88, 89, 90, 91,
                           92, 93, 94, 95>> ->
              <<43, 100, 167, 180, 215, 17, 235, 124, 245, 229, 59, 54, 77, 54, 40,
              254, 252, 122, 8, 127, 3, 86, 101, 111, 126, 206, 18, 215, 36, 135,
              112, 63>>
      [] hashAlgorithm = "SHA-256" /\ info = "key"
           /\ keyMaterial = <<0, 1, 2, 3, 4, 5, 6, 7, 8, 9, 10, 11, 12, 13, 14, 15>> ->
              <<222, 54, 116, 86, 81, 130, 184, 194, 120, 97, 13, 124, 117, 125, 72,
              114, 221, 139, 43, 170, 130, 2, 157, 148, 24, 188, 29, 149, 210, 245,
              75, 202>>
      [] hashAlgorithm = "SHA-256" /\ info = "salt"
           /\ keyMaterial = <<0, 1, 2, 3, 4, 5, 6, 7, 8, 9, 10, 11, 12, 13, 14, 15>> ->
              <<172, 229, 201, 132, 254, 175, 239, 252, 100, 239, 233, 40, 22, 142,
              71, 9, 159, 101, 70, 50, 47, 204, 167, 101, 64, 51, 155, 20, 84, 89,
              78, 108>>
      [] hashAlgorithm = "SHA-256" /\ info = "key"
           /\ keyMaterial = <<0>> ->
              <<142, 167, 157, 190, 73, 173, 28, 11, 15, 163, 235, 185, 95, 110, 11,
              47, 144, 250, 129, 154, 135, 47, 155, 65, 32, 128, 124, 185, 6, 91,
              156, 92>>
      [] hashAlgorithm = "SHA-256" /\ info = "salt"
           /\ keyMaterial = <<0>> ->
              <<121, 171, 112, 162, 254, 207, 180, 124, 76, 44, 157, 52, 138, 92, 79,
              119, 217, 143, 3, 29, 227, 52, 174, 195, 185, 213, 24, 189, 161, 189,
              115, 190>>
      [] hashAlgorithm = "SHA-256" /\ info = "key"
           /\ keyMaterial = <<255, 255, 255, 255, 255, 255, 255, 255, 255, 255, 255,
                           255, 255, 255, 255, 255>> ->
              <<16, 137, 152, 206, 96, 101, 226, 22, 205, 34, 45, 66, 171, 38, 165,
              52, 67, 167, 45, 234, 30, 54, 245, 224, 158, 176, 199, 178, 11, 221,
              73, 61>>
      [] hashAlgorithm = "SHA-256" /\ info = "salt"
           /\ keyMaterial = <<255, 255, 255, 255, 255, 255, 255, 255, 255, 255, 255,
                           255, 255, 255, 255, 255>> ->
              <<51, 208, 179, 243, 163, 13, 38, 180, 233, 104, 61, 81, 58, 239, 143,
              193, 13, 195, 205, 140, 192, 68, 62, 9, 40, 43, 40, 250, 107, 86, 8,
              226>>
      [] hashAlgorithm = "SHA-512" /\ info = "key"
           /\ keyMaterial = <<16, 17, 18, 19, 20, 21, 22, 23, 24, 25, 26, 27, 28, 29,
                           30, 31>> ->
              <<67, 24, 105, 198, 7, 166, 165, 162, 240, 184, 35, 4, 22, 47, 143,
              254, 52, 246, 52, 60, 38, 100, 97, 56, 154, 96, 245, 16, 25, 155, 55,
              179>>
      [] hashAlgorithm = "SHA-512" /\ info = "salt"
           /\ keyMaterial = <<16, 17, 18, 19, 20, 21, 22, 23, 24, 25, 26, 27, 28, 29,
                           30, 31>> ->
              <<62, 140, 160, 151, 94, 9, 117, 222, 153, 189, 159, 214, 162, 244,
              185, 126, 89, 249, 135, 246, 163, 196, 44, 151, 14, 162, 192, 245, 83,
              253, 233, 32>>
      [] hashAlgorithm = "SHA-512" /\ info = "key"
           /\ keyMaterial = <<32, 33, 34, 35, 36, 37, 38, 39, 40, 41, 42, 43, 44, 45,
                           46, 47>> ->
              <<91, 73, 115, 16, 31, 40, 47, 115, 94, 174, 123, 143, 92, 135, 62,
              134, 102, 29, 17, 228, 195, 244, 50, 134, 226, 16, 194, 90, 169, 21,
              95, 217>>
      [] hashAlgorithm = "SHA-512" /\ info = "salt"
           /\ keyMaterial = <<32, 33, 34, 35, 36, 37, 38, 39, 40, 41, 42, 43, 44, 45,
                           46, 47>> ->
              <<105, 64, 107, 30, 70, 33, 234, 251, 9, 133, 63, 180, 242, 140, 180,
              231, 217, 220, 227, 86, 108, 26, 55, 144, 76, 90, 175, 164, 218, 249,
              64, 246>>
      [] hashAlgorithm = "SHA-512" /\ info = "key"
           /\ keyMaterial = <<48, 49, 50, 51, 52, 53, 54, 55, 56, 57, 58, 59, 60, 61,
                           62, 63>> ->
              <<36, 76, 202, 20, 0, 177, 127, 66, 37, 167, 70, 103, 176, 121, 158,
              14, 128, 239, 47, 251, 184, 222, 115, 139, 117, 55, 205, 89, 215, 46,
              137, 166>>
      [] hashAlgorithm = "SHA-512" /\ info = "salt"
           /\ keyMaterial = <<48, 49, 50, 51, 52, 53, 54, 55, 56, 57, 58, 59, 60, 61,
                           62, 63>> ->
              <<62, 225, 247, 18, 145, 176, 119, 143, 80, 52, 87, 20, 172, 112, 211,
              61, 43, 172, 189, 24, 227, 66, 158, 178, 225, 229, 201, 48, 22, 120,
              38, 247>>
      [] hashAlgorithm = "SHA-512" /\ info = "key"
           /\ keyMaterial = <<64, 65, 66, 67, 68, 69, 70, 71, 72, 73, 74, 75, 76, 77,
                           78, 79, 80, 81, 82, 83, 84, 85, 86, 87, 88, 89, 90, 91,
                           92, 93, 94, 95>> ->
              <<67, 103, 116, 176, 181, 174, 69, 99, 61, 150, 84, 127, 143, 60, 176,
              108, 142, 102, 40, 239, 242, 228, 37, 91, 92, 77, 119, 231, 33, 170,
              51, 85>>
      [] hashAlgorithm = "SHA-512" /\ info = "salt"
           /\ keyMaterial = <<64, 65, 66, 67, 68, 69, 70, 71, 72, 73, 74, 75, 76, 77,
                           78, 79, 80, 81, 82, 83, 84, 85, 86, 87, 88, 89, 90, 91,
                           92, 93, 94, 95>> ->
              <<49, 237, 38, 249, 10, 7, 46, 106, 238, 100, 98, 152, 53, 56, 23, 202,
              21, 18, 11, 31, 71, 84, 85, 139, 162, 229, 202, 49, 2, 44, 162, 80>>
      [] hashAlgorithm = "SHA-512" /\ info = "key"
           /\ keyMaterial = <<0, 1, 2, 3, 4, 5, 6, 7, 8, 9, 10, 11, 12, 13, 14, 15>> ->
              <<91, 77, 36, 58, 29, 226, 74, 154, 252, 29, 46, 254, 181, 107, 13, 36,
              38, 64, 228, 91, 206, 98, 234, 154, 158, 204, 120, 128, 44, 211, 102,
              198>>
      [] hashAlgorithm = "SHA-512" /\ info = "salt"
           /\ keyMaterial = <<0, 1, 2, 3, 4, 5, 6, 7, 8, 9, 10, 11, 12, 13, 14, 15>> ->
              <<142, 46, 133, 52, 102, 220, 68, 99, 34, 196, 230, 57, 25, 107, 132,
              233, 37, 61, 196, 219, 254, 200, 244, 93, 57, 189, 133, 144, 204, 49,
              183, 170>>
      [] hashAlgorithm = "SHA-512" /\ info = "key"
           /\ keyMaterial = <<0>> ->
              <<144, 96, 176, 34, 127, 81, 150, 57, 133, 175, 41, 165, 180, 82, 18,
              45, 136, 146, 153, 19, 182, 226, 201, 188, 59, 49, 33, 90, 147, 175,
              192, 34>>
      [] hashAlgorithm = "SHA-512" /\ info = "salt"
           /\ keyMaterial = <<0>> ->
              <<32, 95, 118, 82, 124, 158, 64, 65, 185, 32, 238, 80, 21, 250, 124,
              107, 173, 82, 131, 119, 48, 175, 246, 243, 167, 128, 106, 88, 2, 150,
              106, 236>>
      [] hashAlgorithm = "SHA-512" /\ info = "key"
           /\ keyMaterial = <<255, 255, 255, 255, 255, 255, 255, 255, 255, 255, 255,
                           255, 255, 255, 255, 255>> ->
              <<43, 90, 10, 185, 164, 64, 178, 62, 61, 21, 118, 80, 194, 74, 202,
              107, 64, 226, 87, 36, 73, 149, 25, 121, 42, 99, 128, 242, 73, 55, 214,
              161>>
      [] hashAlgorithm = "SHA-512" /\ info = "salt"
           /\ keyMaterial = <<255, 255, 255, 255, 255, 255, 255, 255, 255, 255, 255,
                           255, 255, 255, 255, 255>> ->
              <<17, 154, 72, 5, 15, 151, 6, 109, 230, 170, 246, 131, 138, 67, 20, 51,
              239, 177, 123, 139, 11, 3, 74, 118, 72, 124, 78, 69, 63, 109, 148,
              178>>

\* (mutant) the salt is derived with the info string of the encryption key
deriveSaltBits_keyInfo(variant, keyMaterial) ==
    SubSeq(HkdfOkm(getCipherSuiteConfig(variant).hashAlgorithm, keyMaterial, "key"),
           1, getCipherSuiteConfig(variant).nN)

\* CipherSuite.deriveBits(info, size): size * 8 bits of HKDF output
deriveBits(variant, keyMaterial, info, size) ==
    SubSeq(HkdfOkm(getCipherSuiteConfig(variant).hashAlgorithm, keyMaterial, info),
           1, size)

\* CipherSuite.deriveEncryptionKeyBits
deriveEncryptionKeyBits(variant, keyMaterial) ==
    deriveBits(variant, keyMaterial, "key", getCipherSuiteConfig(variant).nK)

\* CipherSuite.deriveSaltBits
deriveSaltBits(variant, keyMaterial) ==
    deriveBits(variant, keyMaterial, "salt", getCipherSuiteConfig(variant).nN)

\* createCipherSuite(variant, keyMaterial) resolved; nothing derived yet
InitKeySchedule ==
    /\ \E variant \in FrVariants : \E keyMaterial \in KsKeyMaterials :
          last = [op |-> "none", variant |-> variant, keyMaterial |-> keyMaterial,
                  hasKey |-> FALSE, encryptionKey |-> << >>,
                  hasSalt |-> FALSE, saltKey |-> << >>]
    /\ sender = [exists |-> FALSE, senderId |-> N(0), counter |-> N(0), key |-> NoKey]
    /\ receivers = << >>
    /\ recvMap = {}
    /\ timers = << >>
    /\ pendSender = {}
    /\ pendRecv = {}
    /\ pendDec = {}
    /\ emitted = << >>
    /\ nextKey = 1
    /\ calls = [setSender |-> 0, encrypt |-> 0, setReceiver |-> 0, decrypt |-> 0,
                delete |-> 0]

\* const encryptionKey = await cipherSuite.deriveEncryptionKeyBits()
KsDeriveEncryptionKeyBits ==
    /\ last' = [last EXCEPT !.op = "key", !.hasKey = TRUE,
                            !.encryptionKey =
                                deriveEncryptionKeyBits(last.variant, last.keyMaterial)]
    /\ UNCHANGED <<sender, receivers, recvMap, timers, pendSender, pendRecv, pendDec,
                   emitted, nextKey, calls>>

\* const saltKey = await cipherSuite.deriveSaltBits()
KsDeriveSaltBits ==
    /\ last' = [last EXCEPT !.op = "salt", !.hasSalt = TRUE,
                            !.saltKey = deriveSaltBits(last.variant, last.keyMaterial)]
    /\ UNCHANGED <<sender, receivers, recvMap, timers, pendSender, pendRecv, pendDec,
                   emitted, nextKey, calls>>

NextKeySchedule ==
    \/ KsDeriveEncryptionKeyBits
    \/ KsDeriveSaltBits

SpecKeySchedule == InitKeySchedule /\ [][NextKeySchedule]_vars

\* the raw key material 303132333435363738393a3b3c3d3e3f under AES_GCM_128_SHA256
KsVector ==
    /\ last.variant = AES_GCM_128_SHA256
    /\ last.keyMaterial = <<48, 49, 50, 51, 52, 53, 54, 55, 56, 57, 58, 59, 60, 61, 62, 63>>

TmInputs ==
    {desc \in FrInputs :
        /\ getCipherSuiteConfig(desc.variant).algorithm = "AES-GCM"
        /\ desc.skip <= Len(desc.payload)}

\* the bytes a byte can be changed into: a plain byte with bit 0 or bit 7
\* flipped, or a zero byte in place of a ciphertext or tag byte
Alterations(b) ==
    IF b.t = "b"
    THEN {B(IF b.n % 2 = 0 THEN b.n + 1 ELSE b.n - 1),
          B(IF b.n >= 128 THEN b.n - 128 ELSE b.n + 128)}
    ELSE {B(0)}

\* frame with the byte at offset pos (0-based) replaced; pos = -1 leaves it whole
Altered(frame, pos, b) ==
    [j \in 1..Len(frame) |-> IF j = pos + 1 THEN b ELSE frame[j]]

\* A Context whose only Receiver is registered under desc.senderId and holds
\* the sender's key is handed the sender's frame, whole or with one byte altered.
InitTamper ==
    /\ \E desc \in TmInputs : \E pos \in -1..(Len(FrameOf(desc)) - 1) :
          \E b \in (IF pos = -1 THEN {B(0)} ELSE Alterations(FrameOf(desc)[pos + 1])) :
              last = [op |-> "none", outcome |-> "", desc |-> desc, pos |-> pos,
                      frame |-> Altered(FrameOf(desc), pos, b),
                      plain |-> << >>, errs |-> << >>]
    /\ sender = [exists |-> FALSE, senderId |-> N(0), counter |-> N(0), key |-> NoKey]
    /\ receivers = << >>
    /\ recvMap = {}
    /\ timers = << >>
    /\ pendSender = {}
    /\ pendRecv = {}
    /\ pendDec = {}
    /\ emitted = << >>
    /\ nextKey = 1
    /\ calls = [setSender |-> 0, encrypt |-> 0, setReceiver |-> 0, decrypt |-> 0,
                delete |-> 0]

\* Context.decrypt(frame, skip) and Receiver.decrypt of that Receiver, whose
\* maxReceivedCounter is still -1 and whose keyring holds the one key
TmDecrypt ==
    /\ last.op = "none"
    /\ LET desc == last.desc
           header == ParsedHeader(last.frame, desc.skip)
           key == createCipherSuite(1, desc.variant, desc.raw)
           res == SFrameCryptoDecrypt(key, header, last.frame, desc.skip)
       IN  IF header.keyId # desc.senderId
           THEN last' = [last EXCEPT !.op = "decrypt", !.outcome = MissingReceiverError]
           ELSE IF checkForReplayAttack(MinusOne, header.counter)
           THEN last' = [last EXCEPT !.op = "decrypt", !.outcome = "ReplayAttackError"]
           ELSE IF res.ok
           THEN last' = [last EXCEPT !.op = "decrypt", !.outcome = "ok",
                                     !.plain = CopyClearPrefix(res.payload, last.frame,
                                                               desc.skip)]
           ELSE last' = [last EXCEPT !.op = "decrypt", !.outcome = "DecryptionFailure",
                                     !.errs = <<[name |-> res.name,
                                                 message |-> res.error]>>]
    /\ UNCHANGED <<sender, receivers, recvMap, timers, pendSender, pendRecv, pendDec,
                   emitted, nextKey, calls>>

NextTamper == TmDecrypt

SpecTamper == InitTamper /\ [][NextTamper]_vars

\* C40: when only a byte inside the first skip bytes of a valid frame was
\* altered, decrypt succeeds, the first skip bytes it returns are those of the
\* altered frame, and the bytes from skip on are the original plaintext.
C40_SkipNotAuthenticated ==
    (last.op = "decrypt" /\ last.pos >= 0 /\ last.pos < last.desc.skip)
        => /\ last.outcome = "ok"
           /\ Len(last.plain) = Len(last.desc.payload)
           /\ \A j \in 1..last.desc.skip : last.plain[j] = last.frame[j]
           /\ \A j \in (last.desc.skip + 1)..Len(last.desc.payload) :
                 last.plain[j] = B(last.desc.payload[j])

\* C40 witness: the first of two payload bytes, sent in the clear, was altered
\* and the altered byte is returned in front of the second, decrypted one
C40_Witness ==
    /\ last.op = "decrypt"
    /\ last.outcome = "ok"
    /\ last.desc.skip = 1
    /\ last.pos = 0
    /\ Len(last.plain) = 2
    /\ last.plain[1] # B(last.desc.payload[1])
    /\ last.plain[2] = B(last.desc.payload[2])

\* the attempt of the Receiver's key on the frame handed to decrypt ended in the
\* tag comparison, before crypto.subtle.decrypt was called
FailedAtTag ==
    /\ last.outcome = "DecryptionFailure"
    /\ last.errs = <<[name |-> "Error", message |-> "Authentication error"]>>

\* When a byte at or after offset skip was altered, the key's attempt ends in the
\* tag comparison, or the altered header routes the frame to no Receiver.
TagComparedFirst ==
    (last.op = "decrypt" /\ last.pos >= last.desc.skip)
        => \/ FailedAtTag
           \/ last.outcome = MissingReceiverError

\* C31: under every suite, AES-CTR and AES-GCM alike, encrypt returns a frame
\* that ends with the first nT bytes of the HMAC over frame[skip .. end - nT),
\* appended right after the ciphertext.
C31_TagAppended ==
    last.op = "encrypt"
        => /\ last.outcome = "ok"
           /\ ClearHeaderAndTag(last.desc, last.frame)

(***************************************************************************)
(* One key id whose Receiver is installed, deleted and installed again     *)
(***************************************************************************)
LcMaxSetReceiver == 3
LcMaxDelete == 1
LcMaxDecrypt == 1

LcSetReceiverEncryptionKey ==
    \E rawKey \in RawKeys :
        /\ calls.setReceiver < LcMaxSetReceiver
        /\ SetReceiverEncryptionKeyCall(N(1), rawKey)

LcDeleteReceiver ==
    /\ calls.delete < LcMaxDelete
    /\ DeleteReceiver(N(1))

LcDecrypt ==
    \E rawKey \in RawKeys :
        /\ calls.decrypt < LcMaxDecrypt
        /\ pendDec = {}
        /\ DecryptCall(PeerFrame(N(1), N(0), rawKey, <<202>>, 0))

NextLifecycle ==
    \/ LcSetReceiverEncryptionKey
    \/ SetReceiverEncryptionKeyResume
    \/ LcDeleteReceiver
    \/ Tick
    \/ KeyTimeoutFires
    \/ LcDecrypt
    \/ DecryptResume

SpecLifecycle == Init /\ [][NextLifecycle]_vars

\* the Receiver object recv is no longer (or not yet) in the map
Detached(recv) == \A m \in recvMap : m.recv # recv

\* a deleteReceiver step leaves Receivers, pending calls and timers as they are
C32_DeleteStep ==
    calls'.delete # calls.delete
        => /\ receivers' = receivers
           /\ pendDec' = pendDec
           /\ pendRecv' = pendRecv
           /\ timers' = timers

\* a timer callback changes the Receiver it was scheduled on and no other
C32_TimerStep ==
    (timers # << >> /\ Len(timers') < Len(timers))
        => /\ recvMap' = recvMap
           /\ \A j \in 1..Len(receivers) :
                 j # Head(timers).recv => receivers'[j] = receivers[j]

\* an attempt with the key the frame was encrypted under succeeds, whether or
\* not its Receiver is still in the map
C32_AttemptSucceeds ==
    (/\ last.op = "decrypt"
     /\ last.tried # << >>
     /\ SameMaterial(last.tried[Len(last.tried)], last.desc))
        => last.outcome = "ok"

\* C32: deleteReceiver cancels nothing: a decrypt routed to Receiver k before
\* deleteReceiver(k) completes on that Receiver and returns the plaintext when
\* the Receiver holds the key, and the timers scheduled on the removed Receiver
\* fire and change no Receiver but that one.
C32_DeleteCancelsNothing ==
    /\ [](C32_AttemptSucceeds)
    /\ [][C32_DeleteStep /\ C32_TimerStep]_vars

\* C32 witness: after deleteReceiver(1) returned true and a new Receiver was
\* registered under 1, a decrypt routed to the removed Receiver returns the
\* plaintext, while a timer of the removed Receiver is still to fire
C32_Witness ==
    /\ last.op = "decrypt"
    /\ last.outcome = "ok"
    /\ last.plain = <<B(202)>>
    /\ Detached(last.recv)
    /\ calls.delete = 1
    /\ \E m \in recvMap : m.keyId = N(1) /\ m.recv # last.recv
    /\ \E j \in 1..Len(timers) : timers[j].recv = last.recv

(***************************************************************************)
(* setSenderEncryptionKey calls that each bring their own id and key       *)
(***************************************************************************)
PrMaxSetSender == 2
PrMaxEncrypt == 2

\* setSenderEncryptionKey(k, key k): the id of a call names its key, so that a
\* frame tells which call its id and which call its key came from
PrSetSenderEncryptionKey ==
    \E k \in RawKeys :
        /\ calls.setSender < PrMaxSetSender
        /\ SetSenderEncryptionKeyCall(N(k), k)

PrEncrypt ==
    /\ calls.encrypt < PrMaxEncrypt
    /\ EncryptCall(<<202>>, 0)

NextPairing ==
    \/ PrSetSenderEncryptionKey
    \/ SetSenderEncryptionKeyResume
    \/ PrEncrypt
    \/ EncryptResume

SpecPairing == Init /\ [][NextPairing]_vars

\* C33: every emitted frame carries the sender id of a setSenderEncryptionKey
\* call and is encrypted under the key of that same call, and once no call is
\* pending the Sender holds the id and the key of the call issued last.
C33_IdKeyPaired ==
    /\ \A j \in 1..Len(emitted) : emitted[j].senderId = N(emitted[j].raw)
    /\ (pendSender = {} /\ sender.exists /\ sender.key # NoKey)
          => sender.senderId = N(sender.key.raw)

(***************************************************************************)
(* Installs on one key id that are in flight at once                       *)
(***************************************************************************)
OrMaxSetReceiver == 3

\* the n-th setReceiverEncryptionKey(1, key n): a key names the call it is of
OrSetReceiverEncryptionKey ==
    /\ calls.setReceiver < OrMaxSetReceiver
    /\ SetReceiverEncryptionKeyCall(N(1), calls.setReceiver + 1)

NextOrder ==
    \/ OrSetReceiverEncryptionKey
    \/ SetReceiverEncryptionKeyResume
    \/ Tick
    \/ KeyTimeoutFires

SpecOrder == Init /\ [][NextOrder]_vars

\* C34: the keys of a Receiver's keyring are in the order their calls were
\* issued, and once every call has resolved and every timer has fired the key
\* left is that of the call issued last.
C34_CallOrder ==
    \A r \in 1..Len(receivers) :
        /\ \A j, h \in 1..Len(receivers[r].keyring) :
              j < h => receivers[r].keyring[j].raw < receivers[r].keyring[h].raw
        /\ (pendRecv = {} /\ timers = << >> /\ receivers[r].keyring # << >>)
              => receivers[r].keyring = <<createSFrameCrypto(
                                             receivers[r].keyring[1].id,
                                             calls.setReceiver)>>

\* C35: whenever a decrypt returns the plaintext of a frame with counter c, the
\* Receiver's maxReceivedCounter at that return is at most c + ReplayWindow,
\* whatever other decrypts completed while this one was suspended.
C35_WindowAtReturn ==
    (last.op = "decrypt" /\ last.outcome = "ok")
        => ~NumDiffGT(receivers[last.recv].maxReceivedCounter, last.counter,
                      ReplayWindow)

\* C36: when a setReceiverEncryptionKey(k, K) call has just resolved, so that
\* no deleteReceiver(k) came after it, canDecrypt(k) is true and the Receiver
\* registered under k holds K, also when deleteReceiver(k) ran while the key
\* derivation was pending.
C36_InstallSurvivesDelete ==
    (last.op = "setReceiver" /\ last.outcome = "ok")
        => LET k == receivers[last.recv].keyId
               installed == receivers[last.recv].installed
               K == installed[Len(installed)]
           IN  /\ canDecrypt(k)
               /\ \E j \in 1..Len(receivers[Get(k)].keyring) :
                     receivers[Get(k)].keyring[j] = K

(***************************************************************************)
(* A key id that is deleted and registered again between decrypts          *)
(***************************************************************************)
RiMaxSetReceiver == 2
RiMaxDelete == 1
RiMaxDecrypt == 3

RiSetReceiverEncryptionKey ==
    /\ calls.setReceiver < RiMaxSetReceiver
    /\ pendRecv = {}
    /\ pendDec = {}
    /\ SetReceiverEncryptionKeyCall(N(1), 1)

\* deleteReceiver(1) while no call is pending on the Context
RiDeleteReceiver ==
    /\ calls.delete < RiMaxDelete
    /\ pendRecv = {}
    /\ pendDec = {}
    /\ DeleteReceiver(N(1))

RiDecrypt ==
    \E c \in RpCounters :
        /\ calls.decrypt < RiMaxDecrypt
        /\ pendRecv = {}
        /\ pendDec = {}
        /\ DecryptCall(PeerFrame(N(1), N(c), 1, <<202, 254>>, 1))

NextReinstall ==
    \/ RiSetReceiverEncryptionKey
    \/ SetReceiverEncryptionKeyResume
    \/ RiDeleteReceiver
    \/ RiDecrypt
    \/ DecryptResume

SpecReinstall == Init /\ [][NextReinstall]_vars

\* no frame is delivered that a Receiver the key id was registered to before
\* rejects as a replay
C37_RejectedAgain ==
    (last.op = "decrypt" /\ last.outcome = "ok")
        => \A r \in 1..Len(receivers) :
              receivers[r].keyId = receivers[last.recv].keyId
                  => ~checkForReplayAttack(receivers[r].maxReceivedCounter,
                                           last.counter)

\* C37: the replay high-water mark applied to the frames of a key id never
\* decreases: the maxReceivedCounter of the Receiver registered under a key id
\* is at least that of every Receiver the key id was registered to before, so
\* that a frame rejected as a replay once is rejected after a reinstall too.
C37_MarkNeverDecreases ==
    /\ \A m \in recvMap : \A r \in 1..Len(receivers) :
          receivers[r].keyId = m.keyId
              => ~NumLT(receivers[m.recv].maxReceivedCounter,
                        receivers[r].maxReceivedCounter)
    /\ C37_RejectedAgain

(***************************************************************************)
(* Installs whose key derivation fails                                     *)
(***************************************************************************)
RjMaxSetSender == 2
RjMaxSetReceiver == 2
RjMaxDelete == 1

\* one call at a time, so that the Context before a call is the Context the
\* previous call left
RjSetSenderEncryptionKey ==
    \E id \in KeyIds, rawKey \in RawKeys \cup {BadKey} :
        /\ calls.setSender < RjMaxSetSender
        /\ pendSender = {}
        /\ pendRecv = {}
        /\ SetSenderEncryptionKeyCall(id, rawKey)

RjSetReceiverEncryptionKey ==
    \E id \in KeyIds, rawKey \in RawKeys \cup {BadKey} :
        /\ calls.setReceiver < RjMaxSetReceiver
        /\ pendSender = {}
        /\ pendRecv = {}
        /\ SetReceiverEncryptionKeyCall(id, rawKey)

RjDeleteReceiver ==
    \E id \in KeyIds :
        /\ calls.delete < RjMaxDelete
        /\ pendSender = {}
        /\ pendRecv = {}
        /\ DeleteReceiver(id)

NextReject ==
    \/ RjSetSenderEncryptionKey
    \/ SetSenderEncryptionKeyResume
    \/ SetSenderEncryptionKeyReject
    \/ RjSetReceiverEncryptionKey
    \/ SetReceiverEncryptionKeyResume
    \/ SetReceiverEncryptionKeyReject
    \/ RjDeleteReceiver

SpecReject == Init /\ [][NextReject]_vars

\* a setSenderEncryptionKey call that rejects leaves the Sender's id and key,
\* and canEncrypt(), as they were before the call
C38_SenderAsBefore ==
    (last'.op = "setSender" /\ last'.outcome = "rejected")
        => \A op \in pendSender \ pendSender' :
              /\ sender'.exists = op.before.exists
              /\ sender'.senderId = op.before.senderId
              /\ sender'.key = op.before.key

\* a setReceiverEncryptionKey call that rejects leaves canDecrypt(k) as it was
\* before the call
C38_ReceiverAsBefore ==
    (last'.op = "setReceiver" /\ last'.outcome = "rejected")
        => \A op \in pendRecv \ pendRecv' :
              /\ recvMap' = recvMap
              /\ Has(op.keyId) <=> op.had

\* C38: when createSFrameCrypto rejects inside setSenderEncryptionKey or
\* setReceiverEncryptionKey, the Context is as before the call: the Sender's id
\* and key and canEncrypt() are unchanged and no Receiver entry was added.
C38_NoPartialUpdate == [][C38_SenderAsBefore /\ C38_ReceiverAsBefore]_vars

\* ---------------------------------------------------------------------------
\* Retirement timers (Context.ts 145-150, 165-183)
\* ---------------------------------------------------------------------------

\* the step is the callback of the oldest pending retirement timer
TimerFires == timers # << >> /\ Len(timers') < Len(timers)

\* the 1-based places of key keyId in keyring
PlacesOf(keyring, keyId) == {j \in 1..Len(keyring) : keyring[j].id = keyId}

\* the keyring from place j on
SuffixFrom(keyring, j) == [h \in 1..(Len(keyring) - j + 1) |-> keyring[h + j - 1]]

\* C39: whenever a retirement timer scheduled for key k fires, k is still in
\* that Receiver's keyring (findIndex is never -1) and the keyring after the
\* firing is exactly the suffix of the keyring before it that starts at k's
\* first occurrence, for any order of installs and timer firings.
C39_TimerStep ==
    TimerFires =>
        LET t == Head(timers)
            before == receivers[t.recv].keyring
            places == PlacesOf(before, t.key)
        IN  /\ places # {}
            /\ last'.op = "timer" /\ last'.flag
            /\ \A j \in places :
                   (\A h \in places : j <= h) =>
                       receivers'[t.recv].keyring = SuffixFrom(before, j)

C39_TimerFindsKey == [][C39_TimerStep]_vars

\* the timers of the second and the third key have both fired and only the
\* third key is left
C39_Witness ==
    /\ last.op = "timer" /\ last.flag
    /\ Len(receivers[last.recv].installed) = 3
    /\ receivers[last.recv].fired = 3
    /\ Len(receivers[last.recv].keyring) = 1
    /\ receivers[last.recv].keyring[1].id = receivers[last.recv].installed[3].id
    /\ timers = << >>

=============================================================================
